---- MODULE Spec2Model ----
(***************************************************************************)
(* Model of sdc-docker's job polling (waitForJob / pollJob), of the        *)
(* resolution of resources by name in the store, and of the DOCKER-880     *)
(* regression test that exercises it.                                      *)
(***************************************************************************)
EXTENDS Integers, Sequences, FiniteSets, TLC

(***************************************************************************)
(* Bounds of the model.                                                    *)
(***************************************************************************)
\* longest chain_results list a workflow job carries
MaxChain == 2
\* number of requests the clients of the gateway make
MaxOps == 3
\* number of rows earlier runs have left in the store
MaxStale == 1
\* length of the longest identifier a progress event is made with
MaxIdLen == 14
\* number of events written to one response
MaxWrites == 2
\* length of the longest payload written to the raw stream
MaxPayload == 3
\* number of segments a request path has after /images
MaxSegs == 3
\* number of tags tagsFromRepoName finds for a repository
MaxTags == 2
\* the uncaught errors one run of the server handles
MaxUncaught == 2

(***************************************************************************)
(* Program constants of pollJob.                                           *)
(***************************************************************************)
\* var limit = 720;
limit == 720

VARIABLES
    \* ---- pollJob / waitForJob ----
    jpc,        \* where the waitForJob call is: idle, getJob, timer, done, threw
    attempts,   \* pollJob: var attempts
    errors,     \* pollJob: var errors
    calls,      \* number of client.getJob calls issued so far
    wfJob,      \* the job as the workflow engine holds it
    job,        \* the job object of the last getJob answer that had no error
    cbArgs,     \* the arguments of each call of waitForJob's cb, in order
    consec,     \* history: length of the run of fetch errors ending at the last answer
    maxRun,     \* history: length of the longest run of consecutive fetch errors
    totalErrs,  \* history: number of getJob answers that were errors
    abandoned,  \* whether the request that called waitForJob has been abandoned
    polls,      \* the client.getJob calls whose callback has not been called yet
    timers,     \* the setTimeout(poll, timeout) timers that have not fired yet
    \* ---- the resource store and the resolver's requests ----
    volumes,    \* the records of the store: [uuid, name, kind, state, created]
    nextUuid,   \* the identifier the store gives to the next record
    creating,   \* the create requests in flight: [uuid, name, kind, job]
    answer,     \* the last answer given to a client:
                \* [op, name, kind, status, uuid, result]
    ops,        \* number of client requests made so far
    \* ---- the DOCKER-880 test ----
    tpc,                \* the tt.test the run is at (1..10; 11 when over)
    issued,             \* whether the create of the current tt.test has been sent
    createOk,           \* t.ifErr passed in each volumeCreated, in order
    rmOk,               \* t.ifErr passed in each onVolumeDeleted, in order
    testVolumesLengths, \* testVolumes.length in each onVolumesListed, in order
    readyLengths,       \* volumes.length in each volumesListed, in order
    firstVolumeUuid,    \* var firstVolumeUuid (0: not set)
    volumeUuid,         \* var volumeUuid of the second volumesListed (0: not set)
    \* ---- the stream helpers (writeProgress, writeStatus, raw stream) ----
    res,        \* the response: [statusCode, writes, ended, sent]
    events,     \* history: the calls that wrote to res: [fn, progress]
    frameType,  \* writeToDockerRawStream: the argument type
    frameData,  \* writeToDockerRawStream: the argument data
    rawStream,  \* the messages written to the raw stream, in order
    \* ---- the image endpoints ----
    req,        \* the request: method, path, query, and what handlers set
    hpc,        \* the handlers of the matched route still to run
    nexts,      \* the arguments of each call of next made by a handler
    backendCalls, \* the backend operations invoked, in order
    \* ---- uncaughtHandler ----
    clientSaw,  \* what res.send gave the client of each request that threw
    serverLog,  \* the records req.log.error wrote, in order
    \* ---- the setup script of the client zone ----
    spc,        \* where the script is: prepare, for, run, test, check, touch, exited
    todo,       \* the values of the for loop still to come
    exit_status, \* exit_status
    got_docker_clients_successfully, \* got_docker_clients_successfully
    ran,        \* history: the exit status of each run of get-docker-clients.sh
    marker,     \* whether the script has made /var/svc/user-script-done
    scriptExit  \* the exit status of the script (-1 while it runs)

jobVars == <<jpc, attempts, errors, calls, wfJob, job, cbArgs, consec, maxRun, totalErrs,
             abandoned, polls, timers>>

volVars == <<volumes, nextUuid, creating, answer, ops>>

testVars == <<tpc, issued, createOk, rmOk, testVolumesLengths, readyLengths,
              firstVolumeUuid, volumeUuid>>

streamVars == <<res, events, frameType, frameData, rawStream>>

imgVars == <<req, hpc, nexts, backendCalls>>

httpVars == <<streamVars, imgVars>>

uncaughtVars == <<clientSaw, serverLog>>

scriptVars == <<spc, todo, exit_status, got_docker_clients_successfully, ran, marker,
                scriptExit>>

hostVars == <<uncaughtVars, scriptVars>>

vars == <<jobVars, volVars, testVars, httpVars, hostVars>>

(***************************************************************************)
(* Values.                                                                 *)
(***************************************************************************)
\* result.error of a chain_results entry: absent, an error with a message,
\* or an error object that has no message
NoError == [set |-> FALSE, message |-> "", name |-> ""]
ErrorWithMessage == [set |-> TRUE, message |-> "task failed", name |-> "TaskError"]
ErrorNoMessage == [set |-> TRUE, message |-> "", name |-> "TaskError"]

ChainErrors == {NoError, ErrorWithMessage, ErrorNoMessage}

\* one entry of job.chain_results
ChainEntry(e) == [result |-> "OK", error |-> e]

RECURSIVE OkEntries(_)
OkEntries(n) == IF n = 0 THEN <<>> ELSE <<ChainEntry(NoError)>> \o OkEntries(n - 1)

\* the chain_results lists the engine may hand out: the tasks before the last
\* one have run without error, the last entry is any entry
Chains ==
    {<<>>} \cup
    {OkEntries(n - 1) \o <<ChainEntry(e)>> : n \in 1..MaxChain, e \in ChainErrors}

\* a job object; present = FALSE stands for a getJob answer without a job
Job(exec, chain) == [present |-> TRUE, execution |-> exec, chain_results |-> chain]
NoJob == [present |-> FALSE, execution |-> "", chain_results |-> <<>>]

\* Error objects are written as their message.
\* the err of a failed client.getJob call
FetchError == "getJob failed"
\* new Error('polling for job timed out')
TimeoutError == "polling for job timed out"

\* JSON.stringify(result.error) for the error objects of the model
JSONstringify(e) ==
    IF e.message = ""
    THEN "{\"name\":\"" \o e.name \o "\"}"
    ELSE "{\"name\":\"" \o e.name \o "\",\"message\":\"" \o e.message \o "\"}"

(***************************************************************************)
(* waitForJob's callback to pollJob (the function (err, job) it passes).   *)
(* The outcome is what it does with cb: threw (chain_results.pop() gave    *)
(* undefined and result.error raised a TypeError) or one call of cb with   *)
(* the given arguments.                                                    *)
(***************************************************************************)
\* var errmsg = result.error.message || JSON.stringify(result.error);
Errmsg(e) == IF e.message # "" THEN e.message ELSE JSONstringify(e)

\* if (result.error) ... cb(new Error(errmsg)) else cb()
ResultArgs_passResult(result) ==
    IF result.error.set THEN <<Errmsg(result.error)>> ELSE <<"null", result.result>>
ResultArgs(result) ==
    IF result.error.set THEN <<Errmsg(result.error)>> ELSE <<>>

PollDone(err, j) ==
    IF err.set
    THEN [threw |-> FALSE, args |-> <<err.message>>]
    ELSE IF Len(j.chain_results) = 0
         THEN [threw |-> TRUE, args |-> <<>>]
         ELSE [threw |-> FALSE,
               args |-> ResultArgs(j.chain_results[Len(j.chain_results)])]

\* the err argument pollJob hands to its cb
CbErr(e) == [set |-> TRUE, message |-> e]
CbNoErr == [set |-> FALSE, message |-> ""]

(***************************************************************************)
(* pollJob                                                                 *)
(***************************************************************************)
\* if (errors >= 5)
TooManyErrors_gt(e) == e > 5
TooManyErrors(e) == e >= 5

\* else if (attempts > limit)
TimedOut_ge(a) == a >= limit
TimedOut(a) == a > limit

\* cb(...) of pollJob: runs waitForJob's callback, which ends the call
Finish(err, j) ==
    LET out == PollDone(err, j) IN
    /\ jpc' = IF out.threw THEN "threw" ELSE "done"
    /\ cbArgs' = IF out.threw THEN cbArgs ELSE Append(cbArgs, out.args)
    /\ UNCHANGED timers

\* setTimeout(poll, timeout)
Again_twice == jpc' = "timer" /\ timers' = timers + 2 /\ UNCHANGED cbArgs

Again == jpc' = "timer" /\ timers' = timers + 1 /\ UNCHANGED cbArgs


\* no waitForJob call made yet, for a job that is queued
JobIdle ==
    /\ jpc = "idle"
    /\ attempts = 0
    /\ errors = 0
    /\ calls = 0
    /\ wfJob = Job("queued", <<>>)
    /\ job = NoJob
    /\ cbArgs = <<>>
    /\ consec = 0
    /\ maxRun = 0
    /\ totalErrs = 0
    /\ abandoned = FALSE
    /\ polls = 0
    /\ timers = 0

\* waitForJob(wfClient, job_uuid, cb): pollJob(...) runs poll() at once
WaitForJob ==
    /\ jpc = "idle"
    /\ jpc' = "getJob"
    /\ calls' = calls + 1
    /\ polls' = polls + 1
    /\ UNCHANGED timers
    /\ UNCHANGED <<attempts, errors, wfJob, job, cbArgs, consec, maxRun, totalErrs>>
    /\ UNCHANGED <<abandoned, volVars, testVars, httpVars, hostVars>>

\* the timer of setTimeout(poll, timeout) fires: poll() calls client.getJob
TimerFires ==
    /\ timers > 0
    /\ timers' = timers - 1
    /\ jpc' = "getJob"
    /\ calls' = calls + 1
    /\ polls' = polls + 1
    /\ UNCHANGED <<attempts, errors, wfJob, job, cbArgs, consec, maxRun, totalErrs>>
    /\ UNCHANGED <<abandoned, volVars, testVars, httpVars, hostVars>>

\* getJob answers with an error
GetJobErr ==
    /\ polls > 0
    /\ polls' = polls - 1
    /\ attempts' = attempts + 1
    /\ errors' = errors + 1
    /\ consec' = consec + 1
    /\ maxRun' = IF consec' > maxRun THEN consec' ELSE maxRun
    /\ totalErrs' = totalErrs + 1
    /\ IF TooManyErrors(errors') THEN Finish(CbErr(FetchError), NoJob) ELSE Again
    /\ UNCHANGED <<calls, wfJob, job>>
    /\ UNCHANGED <<abandoned, volVars, testVars, httpVars, hostVars>>

\* getJob answers without error, with the job j (or without a job);
\* errs is the value errors has afterwards
PollOk(j, errs) ==
    /\ polls > 0
    /\ polls' = polls - 1
    /\ attempts' = attempts + 1
    /\ errors' = errs
    /\ consec' = 0
    /\ job' = j
    /\ IF j.present /\ j.execution = "succeeded" THEN Finish(CbNoErr, j)
       ELSE IF j.present /\ j.execution = "failed" THEN Finish(CbNoErr, j)
       ELSE IF TimedOut(attempts') THEN Finish(CbErr(TimeoutError), j)
       ELSE Again
    /\ UNCHANGED <<calls, wfJob, maxRun, totalErrs>>
    /\ UNCHANGED <<abandoned, volVars, testVars, httpVars, hostVars>>

GetJobOk_reset == \E j \in {wfJob, NoJob} : PollOk(j, 0)
GetJobOk == \E j \in {wfJob, NoJob} : PollOk(j, errors)

(***************************************************************************)
(* The workflow engine: queued -> running -> {succeeded, failed}.          *)
(***************************************************************************)
JobRuns ==
    /\ wfJob.execution = "queued"
    /\ jpc \in {"getJob", "timer"}
    /\ wfJob' = Job("running", <<>>)
    /\ UNCHANGED <<jpc, attempts, errors, calls, job, cbArgs, consec, maxRun, totalErrs>>
    /\ UNCHANGED <<polls, timers>>
    /\ UNCHANGED <<abandoned, volVars, testVars, httpVars, hostVars>>

JobEnds ==
    /\ wfJob.execution = "running"
    /\ jpc \in {"getJob", "timer"}
    /\ \E exec \in {"succeeded", "failed"}, chain \in Chains :
          wfJob' = Job(exec, chain)
    /\ UNCHANGED <<jpc, attempts, errors, calls, job, cbArgs, consec, maxRun, totalErrs>>
    /\ UNCHANGED <<polls, timers>>
    /\ UNCHANGED <<abandoned, volVars, testVars, httpVars, hostVars>>

\* the client of the request that waits for the job goes away while pollJob
\* waits for its timer: nothing of waitForJob or pollJob is told
Abandon ==
    /\ jpc = "timer"
    /\ ~abandoned
    /\ abandoned' = TRUE
    /\ UNCHANGED <<jpc, attempts, errors, calls, wfJob, job, cbArgs, consec, maxRun,
                   totalErrs, polls, timers>>
    /\ UNCHANGED <<volVars, testVars, httpVars, hostVars>>

(***************************************************************************)
(* The resource store and the Resource Resolver (create, delete, list,     *)
(* resolve).  One account; records are keyed by kind and name.             *)
(***************************************************************************)
Names == {"foo", "bar"}
Kinds == {"volume", "image"}
NonReady == {"creating", "deleting", "failed"}
\* the (name, kind) pairs the requests of the model are about
Keys == {<<"foo", "volume">>, <<"bar", "volume">>, <<"foo", "image">>}

Record(u, n, k, st) == [uuid |-> u, name |-> n, kind |-> k, state |-> st, created |-> u]

\* the records of the store with the given kind and name
Matching(n, k) == {v \in volumes : v.name = n /\ v.kind = k}

\* the most recently created record of a non-empty set
MostRecent(S) == CHOOSE v \in S : \A w \in S : w.created <= v.created

\* resolve(name, kind): the canonical ready record of that name, if any
NotFound == [found |-> FALSE, uuid |-> 0, anomaly |-> FALSE]
Resolve_anyState(n, k) ==
    LET R == Matching(n, k) IN
    IF R = {} THEN NotFound
    ELSE [found |-> TRUE, uuid |-> MostRecent(R).uuid, anomaly |-> FALSE]
Resolve(n, k) ==
    LET R == {v \in Matching(n, k) : v.state = "ready"} IN
    IF R = {} THEN NotFound
    ELSE [found |-> TRUE, uuid |-> MostRecent(R).uuid, anomaly |-> Cardinality(R) > 1]

\* list(kind, filters): the ready records of the kind; filter "" is no name filter
ListResult_anyState(k, filter) ==
    {v \in volumes : v.kind = k /\ (filter = "" \/ v.name = filter)}
ListResult(k, filter) ==
    {v \in volumes : v.kind = k /\ v.state = "ready" /\ (filter = "" \/ v.name = filter)}

SetState(u, st) ==
    {IF v.uuid = u THEN [v EXCEPT !.state = st] ELSE v : v \in volumes}

\* an answer: op is the request, status its outcome, uuid the identifier a
\* create or delete resolved, result the records a list returns
Answer(op, n, k, st, u, rows) ==
    [op |-> op, name |-> n, kind |-> k, status |-> st, uuid |-> u, result |-> rows]
NoAnswer == Answer("", "", "", "none", 0, {})

\* the rows earlier runs may have left behind: none of them ready
StaleSets ==
    {{}} \cup
    {{Record(1, key[1], key[2], st)} : key \in Keys, st \in NonReady} \cup
    {{Record(1, "foo", "volume", s1), Record(2, "foo", "volume", s2)} :
        s1 \in NonReady, s2 \in NonReady}

\* the store with the rows S in it, and no request made yet
StoreWith(S) ==
    /\ volumes = S
    /\ nextUuid = Cardinality(S) + 1
    /\ creating = {}
    /\ answer = NoAnswer
    /\ ops = 0

\* create(name, kind): the store creates the record and a job is submitted;
\* the request then waits for the job.  The store takes any create, also of
\* a name that has a ready record: whether it refuses one is the store's
\* business, and the resolver has to cope either way.
Create(n, k) ==
    /\ volumes' = volumes \cup {Record(nextUuid, n, k, "creating")}
    /\ creating' = creating \cup {[uuid |-> nextUuid, name |-> n, kind |-> k, job |-> "running"]}
    /\ nextUuid' = nextUuid + 1
    /\ UNCHANGED answer

\* the creation job of a request ends: creating -> ready when it succeeded,
\* creating -> failed when it failed
CreateJobEnds ==
    \E r \in creating, exec \in {"succeeded", "failed"} :
        /\ r.job = "running"
        /\ creating' = (creating \ {r}) \cup {[r EXCEPT !.job = exec]}
        /\ volumes' = SetState(r.uuid, IF exec = "succeeded" THEN "ready" ELSE "failed")
        /\ UNCHANGED <<nextUuid, answer, ops>>
        /\ UNCHANGED <<jobVars, testVars, httpVars, hostVars>>

\* create, after the wait: on success the name is resolved again among the
\* ready records and the resolved identifier is the answer
CreateReturns ==
    \E r \in creating :
        /\ r.job # "running"
        /\ creating' = creating \ {r}
        /\ answer' =
              IF r.job = "failed"
              THEN Answer("create", r.name, r.kind, "error", 0, {})
              ELSE LET resolved == Resolve(r.name, r.kind) IN
                   Answer("create", r.name, r.kind,
                          IF resolved.found THEN "ok" ELSE "not found", resolved.uuid, {})
        /\ UNCHANGED <<volumes, nextUuid, ops>>
        /\ UNCHANGED <<jobVars, testVars, httpVars, hostVars>>

\* delete(name, kind): resolve the ready record, then remove by identifier
Delete(n, k) ==
    LET resolved == Resolve(n, k) IN
    /\ answer' = Answer("delete", n, k,
                         IF resolved.found THEN "ok" ELSE "not found", resolved.uuid, {})
    /\ volumes' = IF resolved.found THEN SetState(resolved.uuid, "deleting") ELSE volumes
    /\ UNCHANGED <<nextUuid, creating>>

\* the deletion job of a record ends: the record is removed when it
\* succeeded, and left in state failed when it failed
DeletionJobEnds ==
    \E v \in volumes, exec \in {"succeeded", "failed"} :
        /\ v.state = "deleting"
        /\ volumes' = IF exec = "succeeded" THEN volumes \ {v}
                      ELSE SetState(v.uuid, "failed")
        /\ UNCHANGED <<nextUuid, creating, answer, ops>>
        /\ UNCHANGED <<jobVars, testVars, httpVars, hostVars>>

\* list(kind, filters)
List(k, filter) ==
    /\ answer' = Answer("list", filter, k, "ok", 0, ListResult(k, filter))
    /\ UNCHANGED <<volumes, nextUuid, creating>>

(***************************************************************************)
(* Clients of the gateway making any request at any time.                  *)
(***************************************************************************)
ClientCreates ==
    /\ ops < MaxOps
    /\ \E key \in Keys : Create(key[1], key[2])
    /\ ops' = ops + 1
    /\ UNCHANGED <<jobVars, testVars, httpVars, hostVars>>

ClientDeletes ==
    /\ ops < MaxOps
    /\ \E key \in Keys : Delete(key[1], key[2])
    /\ ops' = ops + 1
    /\ UNCHANGED <<jobVars, testVars, httpVars, hostVars>>

ClientLists ==
    /\ ops < MaxOps
    /\ \E k \in Kinds, filter \in Names \cup {""} : List(k, filter)
    /\ ops' = ops + 1
    /\ UNCHANGED <<jobVars, testVars, httpVars, hostVars>>

InitTest ==
    /\ tpc = 1
    /\ issued = FALSE
    /\ createOk = <<>>
    /\ rmOk = <<>>
    /\ testVolumesLengths = <<>>
    /\ readyLengths = <<>>
    /\ firstVolumeUuid = 0
    /\ volumeUuid = 0

(***************************************************************************)
(* The DOCKER-880 regression test: ten tt.test steps run in order by one   *)
(* client, alice, against the gateway (docker CLI) and the volume API.     *)
(***************************************************************************)
\* common.makeResourceName(NFS_SHARED_VOLUME_NAMES_PREFIX)
testVolumeName == "foo"
\* mod_testVolumes.getNfsSharedVolumesDriverName()
NFS_SHARED_VOLUMES_DRIVER_NAME == "tritonnfs"

\* the lines of `docker volume ls` under the header, one per listed volume:
\* the driver and the name
outputLines(result) ==
    [u \in {v.uuid : v \in result} |->
        LET v == CHOOSE w \in result : w.uuid = u IN
        <<NFS_SHARED_VOLUMES_DRIVER_NAME, v.name>>]

\* makeKeepVolumeWithNameFn(volumeName): name = driverAndName[1]
keepVolumeWithName_driverColumn(volumeName, driverAndName) ==
    driverAndName[1] = volumeName
keepVolumeWithName(volumeName, driverAndName) ==
    driverAndName[2] = volumeName

\* testVolumes = outputLines.filter(filterTestVolumesFn)
testVolumes(lines) ==
    {u \in DOMAIN lines : keepVolumeWithName(testVolumeName, lines[u])}

\* VOLAPI_CLIENT.listVolumes({name: ..., predicate: {eq: ['state', 'ready']}})
listVolumes_nameOnly(n) ==
    {v \in volumes : v.kind = "volume" /\ v.name = n}
listVolumes(n) ==
    {v \in volumes : v.kind = "volume" /\ v.name = n /\ v.state = "ready"}

\* tt.test 'creating volume ...' and 'creating second volume ...': the
\* docker volume create is sent
T_CreateTestVolume ==
    /\ tpc \in {1, 6}
    /\ ~issued
    /\ Create(testVolumeName, "volume")
    /\ issued' = TRUE
    /\ UNCHANGED <<ops, tpc, createOk, rmOk, testVolumesLengths, readyLengths,
                   firstVolumeUuid, volumeUuid>>
    /\ UNCHANGED <<jobVars, httpVars, hostVars>>

\* function volumeCreated(err, stdout, stderr)
T_VolumeCreated ==
    /\ tpc \in {1, 6}
    /\ issued
    /\ creating = {}
    /\ createOk' = Append(createOk, answer.op = "create" /\ answer.status = "ok")
    /\ issued' = FALSE
    /\ tpc' = tpc + 1
    /\ UNCHANGED <<rmOk, testVolumesLengths, readyLengths, firstVolumeUuid, volumeUuid>>
    /\ UNCHANGED <<jobVars, volVars, httpVars, hostVars>>

\* the four tt.test 'listing volumes ...': docker volume ls, then
\* onVolumesListed counts the lines that name the test volume
T_ListVolumes ==
    /\ tpc \in {2, 5, 8, 10}
    /\ List("volume", "")
    /\ testVolumesLengths' =
          Append(testVolumesLengths,
                 Cardinality(testVolumes(outputLines(answer'.result))))
    /\ tpc' = tpc + 1
    /\ UNCHANGED <<ops, issued, createOk, rmOk, readyLengths, firstVolumeUuid, volumeUuid>>
    /\ UNCHANGED <<jobVars, httpVars, hostVars>>

\* tt.test 'getting first created volume's UUID ...' and 'getting second
\* created volume's UUID ...': volumes[0].uuid of the ready volumes of that
\* name, in whatever order the volume API lists them (0: volumes[0] is
\* undefined)
T_GetVolumeUuid ==
    /\ tpc \in {3, 7}
    /\ LET vols == listVolumes(testVolumeName) IN
       /\ readyLengths' = Append(readyLengths, Cardinality(vols))
       /\ \E u \in IF vols = {} THEN {0} ELSE {v.uuid : v \in vols} :
             /\ firstVolumeUuid' = IF tpc = 3 THEN u ELSE firstVolumeUuid
             /\ volumeUuid' = IF tpc = 7 THEN u ELSE volumeUuid
    /\ tpc' = tpc + 1
    /\ UNCHANGED <<issued, createOk, rmOk, testVolumesLengths>>
    /\ UNCHANGED <<jobVars, volVars, httpVars, hostVars>>

\* tt.test 'removing volume ...' and 'removing second volume ...':
\* docker volume rm, then onVolumeDeleted
T_RmVolume ==
    /\ tpc \in {4, 9}
    /\ Delete(testVolumeName, "volume")
    /\ rmOk' = Append(rmOk, answer'.status = "ok")
    /\ tpc' = tpc + 1
    /\ UNCHANGED <<ops, issued, createOk, testVolumesLengths, readyLengths,
                   firstVolumeUuid, volumeUuid>>
    /\ UNCHANGED <<jobVars, httpVars, hostVars>>

(***************************************************************************)
(* The stream helpers of common.js: progress events written to a response  *)
(* (formatProgress, writeProgress, writeStatus).                           *)
(***************************************************************************)
\* a JavaScript value of a field: undefined, null, a string, or an object
\* held as its JSON text
Undefined == [t |-> "undefined", s |-> ""]
Null == [t |-> "null", s |-> "null"]
Str(s) == [t |-> "string", s |-> s]
Obj(s) == [t |-> "object", s |-> s]

\* what if (v), !v, && and || take v for
Truthy(v) == v.t = "object" \/ (v.t = "string" /\ v.s # "")

\* String.prototype.substr(start, length), start counted from 0
substr(str, start, length) ==
    SubSeq(str, start + 1, IF start + length < Len(str) THEN start + length ELSE Len(str))

\* an image identifier as generateDockerId makes it: hexadecimal digits
DockerId == "0123456789abcdef0123456789abcdef"

\* the progress objects callers hand to writeProgress and writeStatus
ProgressArgs ==
    [id : {Undefined} \cup
          {Str(substr(DockerId, 0, n)) : n \in {0, 1} \cup ((MaxIdLen - 3)..MaxIdLen)},
     status : {Str("Pulling fs layer"), Str("Download complete")},
     progressDetail : {Undefined, Null, Obj("{}"), Obj("{\"current\":1,\"total\":2}")}]

\* function formatProgress(args)
formatProgress_wholeId(args) ==
    [id |-> IF Truthy(args.id) THEN args.id ELSE Str(""),
     status |-> args.status,
     progressDetail |-> args.progressDetail]
formatProgress(args) ==
    [id |-> IF Truthy(args.id) /\ Truthy(Str(substr(args.id.s, 0, 12)))
            THEN Str(substr(args.id.s, 0, 12))
            ELSE Str(""),
     status |-> args.status,
     progressDetail |-> args.progressDetail]

\* JSON.stringify of a progress object: the members in the order they were
\* set, a member whose value is undefined left out
RECURSIVE JSONjoin(_)
JSONjoin(ms) ==
    IF ms = <<>> THEN ""
    ELSE IF Len(ms) = 1 THEN ms[1]
    ELSE ms[1] \o "," \o JSONjoin(Tail(ms))
JSONprogress(progress) ==
    LET all == << <<"id", progress.id>>, <<"status", progress.status>>,
                  <<"progressDetail", progress.progressDetail>> >>
        IsDefined(m) == m[2].t # "undefined"
        kept == SelectSeq(all, IsDefined)
        JSONvalue(v) == IF v.t = "string" THEN "\"" \o v.s \o "\"" ELSE v.s
        JSONmember(k, v) == "\"" \o k \o "\":" \o JSONvalue(v)
    IN "{" \o JSONjoin([i \in 1..Len(kept) |-> JSONmember(kept[i][1], kept[i][2])]) \o "}"

\* res.write(chunk), with the call that made it kept beside it: the function,
\* the object it was given and the object it serialised
Write(fn, progress, written, chunk) ==
    /\ res' = [res EXCEPT !.writes = Append(@, chunk)]
    /\ events' = Append(events, [fn |-> fn, progress |-> progress, written |-> written])

\* function writeProgress(res, progress)
writeProgress_noDefault(progress) ==
    Write("writeProgress", progress, formatProgress(progress),
          JSONprogress(formatProgress(progress)))
writeProgress(progress) ==
    LET defaulted == IF ~Truthy(progress.progressDetail)
                     THEN [progress EXCEPT !.progressDetail = Obj("{}")]
                     ELSE progress
    IN Write("writeProgress", progress, formatProgress(defaulted),
             JSONprogress(formatProgress(defaulted)))

\* function writeStatus(res, progress)
writeStatus_newline(progress) ==
    Write("writeStatus", progress, formatProgress(progress),
          JSONprogress(formatProgress(progress)) \o "\n")
writeStatus(progress) ==
    Write("writeStatus", progress, formatProgress(progress),
          JSONprogress(formatProgress(progress)))

\* a response: the status set on it (0: none set), the chunks written to it,
\* the number of res.end() and of res.send() calls made on it
NoResponse == [statusCode |-> 0, writes |-> <<>>, ended |-> 0, sent |-> 0]
\* a response a handler has opened for streaming, nothing written to it yet
OpenResponse == [NoResponse EXCEPT !.statusCode = 200]

ProgressIdle == res = OpenResponse /\ events = <<>>

\* a caller writes a progress event
WriteProgress ==
    /\ Len(res.writes) < MaxWrites
    /\ \E progress \in ProgressArgs : writeProgress(progress)
    /\ UNCHANGED <<frameType, frameData, rawStream>>
    /\ UNCHANGED <<jobVars, volVars, testVars, imgVars, hostVars>>

\* a caller writes a status event
WriteStatus ==
    /\ Len(res.writes) < MaxWrites
    /\ \E progress \in ProgressArgs : writeStatus(progress)
    /\ UNCHANGED <<frameType, frameData, rawStream>>
    /\ UNCHANGED <<jobVars, volVars, testVars, imgVars, hostVars>>

(***************************************************************************)
(* writeToDockerRawStream: one message of the docker-raw stream.           *)
(***************************************************************************)
\* var STREAM_TYPES = { stdin: 0, stdout: 1, stderr: 2 }
StreamTypes == {"stdin", "stdout", "stderr"}
STREAM_TYPES(type) ==
    CASE type = "stdin" -> 0
      [] type = "stdout" -> 1
      [] type = "stderr" -> 2

\* data is a string (units: its characters, as code points) or a Buffer
\* (units: its bytes)
StringData(chars) == [buffer |-> FALSE, units |-> chars]
BufferData(bytes) == [buffer |-> TRUE, units |-> bytes]

\* the characters payload strings are made of: a, e with acute accent
PayloadChars == {97, 233}
\* the bytes payload Buffers are made of: a, the two bytes of e with acute
\* accent in UTF-8, and a byte no UTF-8 text holds
PayloadBytes == {97, 195, 169, 255}
\* what the memory of a new Buffer(size) may hold before it is written
UninitialisedBytes == {0, 255}

RawData ==
    LET SeqsUpTo(S, n) == UNION {[1..k -> S] : k \in 0..n} IN
    {StringData(c) : c \in SeqsUpTo(PayloadChars, MaxPayload)} \cup
    {BufferData(b) : b \in SeqsUpTo(PayloadBytes, MaxPayload)}

\* the UTF-8 bytes of one character of the basic plane
utf8(cp) ==
    IF cp < 128 THEN <<cp>>
    ELSE IF cp < 2048 THEN <<192 + (cp \div 64), 128 + (cp % 64)>>
    ELSE <<224 + (cp \div 4096), 128 + ((cp \div 64) % 64), 128 + (cp % 64)>>

RECURSIVE utf8All(_)
utf8All(chars) == IF chars = <<>> THEN <<>> ELSE utf8(Head(chars)) \o utf8All(Tail(chars))

\* Buffer.prototype.toString(): UTF-8 decoding, every byte that is no part
\* of a character giving U+FFFD (the bytes of PayloadBytes start characters
\* of one or two bytes only)
RECURSIVE utf8Decode(_)
utf8Decode(bytes) ==
    LET IsContinuation(b) == b >= 128 /\ b < 192 IN
    IF bytes = <<>> THEN <<>>
    ELSE IF bytes[1] < 128 THEN <<bytes[1]>> \o utf8Decode(Tail(bytes))
    ELSE IF bytes[1] >= 194 /\ bytes[1] < 224 /\ Len(bytes) >= 2 /\ IsContinuation(bytes[2])
         THEN <<(bytes[1] - 192) * 64 + (bytes[2] - 128)>> \o utf8Decode(Tail(Tail(bytes)))
    ELSE <<65533>> \o utf8Decode(Tail(bytes))

\* data.toString()
toString(data) == IF data.buffer THEN utf8Decode(data.units) ELSE data.units

\* Buffer.prototype.write(string, offset): the UTF-8 bytes of the leading
\* characters that fit whole into room bytes
RECURSIVE bufferWrite(_, _)
bufferWrite(chars, room) ==
    IF chars = <<>> \/ Len(utf8(Head(chars))) > room THEN <<>>
    ELSE utf8(Head(chars)) \o bufferWrite(Tail(chars), room - Len(utf8(Head(chars))))

\* Buffer.prototype.writeUInt32BE(value, offset)
writeUInt32BE(value) ==
    <<(value \div 16777216) % 256, (value \div 65536) % 256,
      (value \div 256) % 256, value % 256>>

\* the message function writeToDockerRawStream(type, stream, data) builds in
\* a new Buffer that held the bytes memory
RawMessage(type, data, memory) ==
    LET messageSize == Len(data.units)
        written == bufferWrite(toString(data), messageSize)
    IN <<STREAM_TYPES(type), 0, 0, 0>> \o writeUInt32BE(messageSize) \o
       written \o SubSeq(memory, Len(written) + 1, messageSize)

FrameIdle == frameType = "stdout" /\ frameData = StringData(<<>>) /\ rawStream = <<>>

\* a caller has a message for the raw stream
FrameCall ==
    /\ frameType \in StreamTypes
    /\ frameData \in RawData
    /\ rawStream = <<>>

\* function writeToDockerRawStream(type, stream, data)
WriteToDockerRawStream ==
    /\ rawStream = <<>>
    /\ \E memory \in [1..Len(frameData.units) -> UninitialisedBytes] :
          rawStream' = Append(rawStream, RawMessage(frameType, frameData, memory))
    /\ UNCHANGED <<res, events, frameType, frameData>>
    /\ UNCHANGED <<jobVars, volVars, testVars, imgVars, hostVars>>

(***************************************************************************)
(* The image endpoints (lib/endpoints/images.js): the routes register      *)
(* gives to the server, and the handlers of each route run in order, each  *)
(* ending the chain or handing over with next.                             *)
(***************************************************************************)
\* ---- strings ----
\* String.prototype.indexOf(pattern) !== -1
Includes(text, pattern) ==
    \E i \in 1..(Len(text) - Len(pattern) + 1) :
        SubSeq(text, i, i + Len(pattern) - 1) = pattern

\* the places of the character c in str, counted from 1
Positions(str, c) == {i \in 1..Len(str) : SubSeq(str, i, i) = c}

Greatest(S) == CHOOSE x \in S : \A y \in S : y <= x
Least(S) == CHOOSE x \in S : \A y \in S : x <= y

\* the %XX escapes that requests carry, and what each stands for
Escapes == ("41" :> "A") @@ ("2F" :> "/")

\* the global function unescape(string)
RECURSIVE unescape(_)
unescape(str) ==
    IF str = "" THEN ""
    ELSE IF Len(str) >= 3 /\ SubSeq(str, 1, 1) = "%" /\ SubSeq(str, 2, 3) \in DOMAIN Escapes
         THEN Escapes[SubSeq(str, 2, 3)] \o unescape(SubSeq(str, 4, Len(str)))
    ELSE SubSeq(str, 1, 1) \o unescape(SubSeq(str, 2, Len(str)))

\* ---- requests ----
\* a path is the list of its segments: <<"images", "a", "json">> is
\* /images/a/json
Methods == {"GET", "POST", "DELETE"}
Segments ==
    {"json", "history", "push", "tag", "create", "search", "get", "load",
     "changes", "busybox", "%41"}
Paths ==
    LET RestOfPaths == UNION {[1..k -> Segments] : k \in 1..MaxSegs} IN
    {<<"images">> \o t : t \in RestOfPaths} \cup
    {<<"v1.20", "images">> \o t : t \in RestOfPaths}

\* the group (\/v[^\/]+)? at the head of every path expression
IsVersion(seg) == Len(seg) >= 2 /\ SubSeq(seg, 1, 1) = "v"
AfterVersion(path) == IF IsVersion(path[1]) THEN Tail(path) ELSE path

RECURSIVE Join(_)
Join(segs) ==
    IF segs = <<>> THEN ""
    ELSE IF Len(segs) = 1 THEN segs[1]
    ELSE segs[1] \o "/" \o Join(Tail(segs))

\* the query of a request, as restify.queryParser leaves it in req.query
NoQuery ==
    [fromSrc |-> Undefined, fromImage |-> Undefined, tag |-> Undefined,
     repo |-> Undefined, term |-> Undefined]
Queries(path) ==
    LET last == path[Len(path)]
        FromImages == {Undefined, Str("busybox"), Str("busybox:latest"),
                       Str("busybox:1.0"), Str("busybox@sha256:ab"), Str("A")}
    IN
    CASE AfterVersion(path) = <<"images", "create">> ->
            {[NoQuery EXCEPT !.fromSrc = src, !.fromImage = img, !.tag = t] :
                src \in {Undefined, Str("-")}, img \in FromImages,
                t \in {Undefined, Str(""), Str("latest"), Str("sha256:ab")}}
      [] last = "tag" ->
            {[NoQuery EXCEPT !.repo = r, !.tag = t] :
                r \in {Undefined, Str("busybox"), Str("A")}, t \in {Undefined, Str("v1")}}
      [] last = "push" ->
            {[NoQuery EXCEPT !.tag = t] : t \in {Undefined, Str("latest")}}
      [] last = "search" ->
            {[NoQuery EXCEPT !.term = t] : t \in {Undefined, Str("busybox")}}
      [] OTHER -> {NoQuery}

NoParams == [p0 |-> Undefined, p1 |-> Undefined, name |-> Undefined]
Request(method, path, query) ==
    [method |-> method, path |-> path, query |-> query, route |-> "",
     params |-> NoParams, image |-> "", images |-> <<>>, imageTags |-> <<>>]
NoRequest == [Request("", <<>>, NoQuery) EXCEPT !.route = "none"]

\* ---- docker-registry-client (drc) ----
\* names drc refuses: those that start with no repository, and those with a
\* capital letter
ValidName(str) ==
    str # "" /\ SubSeq(str, 1, 1) \notin {":", "@"} /\ ~Includes(str, "A")

\* drc.parseRepoAndRef(arg): name[:tag] or name@digest, the tag "latest"
\* when neither is given
parseRepoAndRef(arg) ==
    IF arg.t # "string" \/ ~ValidName(arg.s)
    THEN [ok |-> FALSE, name |-> "", tag |-> "", digest |-> ""]
    ELSE LET str == arg.s
             at == Positions(str, "@")
             colon == {i \in Positions(str, ":") : \A j \in Positions(str, "/") : j < i}
         IN IF at # {}
            THEN [ok |-> TRUE, name |-> SubSeq(str, 1, Least(at) - 1), tag |-> "",
                  digest |-> SubSeq(str, Least(at) + 1, Len(str))]
            ELSE IF colon # {}
            THEN [ok |-> TRUE, name |-> SubSeq(str, 1, Greatest(colon) - 1),
                  tag |-> SubSeq(str, Greatest(colon) + 1, Len(str)), digest |-> ""]
            ELSE [ok |-> TRUE, name |-> str, tag |-> "latest", digest |-> ""]

\* drc.parseRepoAndTag(arg) and drc.parseRepo(arg): whether they return
parseRepoAndTag(arg) == arg.t = "string" /\ ValidName(arg.s)
parseRepo(arg) == arg.t = "string" /\ ValidName(arg.s)

\* ---- the routes, in the order register gives them to the server ----
Route(name, method, form, suffix, chain) ==
    [name |-> name, method |-> method, form |-> form, suffix |-> suffix,
     chain |-> chain]
Routes ==
    << Route("ImageList", "GET", "fixed", "json",
             <<"before", "queryParser", "imageList">>),
       Route("ImageCreate", "POST", "fixed", "create",
             <<"before", "checkApprovedForProvisioning", "queryParser", "imageCreate">>),
       Route("ImageInspect", "GET", "named", "json",
             <<"reqParamsName", "before", "imageInspect">>),
       Route("ImageHistory", "GET", "named", "history",
             <<"reqParamsName", "before", "reqImage", "imageHistory">>),
       Route("ImagePush", "POST", "named", "push",
             <<"reqParamsName", "before", "queryParser", "reqImagesAndTags", "imagePush">>),
       Route("ImageTag", "POST", "named", "tag",
             <<"reqParamsName", "before", "reqImage", "queryParser", "imageTag">>),
       Route("ImageDelete", "DELETE", "rest", "",
             <<"reqParamsName", "before", "queryParser", "imageDelete">>),
       Route("ImageSearch", "GET", "fixed", "search",
             <<"before", "queryParser", "reqRegAuth", "imageSearch">>),
       Route("ImageGet", "GET", "named", "get",
             <<"reqParamsName", "before", "imageGet">>),
       Route("ImageLoad", "POST", "named", "load",
             <<"reqParamsName", "before", "imageLoad">>) >>

\* whether the path expression of the route matches the path:
\*   fixed  ^(\/v[^\/]+)?\/images\/<suffix>$
\*   named  ^(\/v[^\/]+)?\/images\/(.*?)\/<suffix>$
\*   rest   ^(\/v[^\/]+)?\/images\/(.*?)$
RouteMatches_unanchored(route, path) ==
    LET rest == AfterVersion(path) IN
    /\ rest # <<>> /\ rest[1] = "images"
    /\ CASE route.form = "fixed" -> Tail(rest) = <<route.suffix>>
         [] route.form = "named" -> \E i \in 3..Len(rest) : rest[i] = route.suffix
         [] route.form = "rest" -> Len(rest) >= 2
RouteMatches(route, path) ==
    LET rest == AfterVersion(path) IN
    /\ rest # <<>> /\ rest[1] = "images"
    /\ CASE route.form = "fixed" -> Tail(rest) = <<route.suffix>>
         [] route.form = "named" -> Len(rest) >= 3 /\ rest[Len(rest)] = route.suffix
         [] route.form = "rest" -> Len(rest) >= 2

\* req.params[0] and req.params[1]: the groups of the path expression
Param0(path) == IF IsVersion(path[1]) THEN Str("/" \o path[1]) ELSE Undefined
Param1(route, path) ==
    LET rest == AfterVersion(path) IN
    CASE route.form = "fixed" -> Undefined
      [] route.form = "named" -> Str(Join(SubSeq(rest, 2, Len(rest) - 1)))
      [] route.form = "rest" -> Str(Join(Tail(rest)))

\* the first route of the method whose expression matches (0: none)
FirstMatch(method, path) ==
    LET matching == {i \in 1..Len(Routes) :
                        Routes[i].method = method /\ RouteMatches(Routes[i], path)}
    IN IF matching = {} THEN 0 ELSE Least(matching)

ImgIdle == req = NoRequest /\ hpc = <<>> /\ nexts = <<>> /\ backendCalls = <<>>

frameVars == <<frameType, frameData, rawStream>>

\* a request for /images/... arrives
RequestArrives ==
    /\ \E method \in Methods, path \in Paths :
          \E query \in Queries(path) : req = Request(method, path, query)
    /\ hpc = <<>>
    /\ nexts = <<>>
    /\ backendCalls = <<>>

\* the server finds the route of the request; when there is none it answers
\* itself and no handler runs
Dispatch ==
    /\ req.route = ""
    /\ LET i == FirstMatch(req.method, req.path) IN
          IF i = 0
          THEN req' = [req EXCEPT !.route = "none"] /\ hpc' = <<>>
          ELSE /\ req' = [req EXCEPT !.route = Routes[i].name,
                                     !.params = [p0 |-> Param0(req.path),
                                                 p1 |-> Param1(Routes[i], req.path),
                                                 name |-> Undefined]]
               /\ hpc' = Routes[i].chain
    /\ UNCHANGED <<res, events, nexts, backendCalls>>
    /\ UNCHANGED <<jobVars, volVars, testVars, frameVars, hostVars>>

\* ---- what every handler is made of ----
At(handler) == hpc # <<>> /\ Head(hpc) = handler

\* next(arg): "" is next(), "false" is next(false), any other the name of
\* the error passed; the chain goes on after next() only
CallNext(arg) ==
    /\ nexts' = Append(nexts, arg)
    /\ hpc' = IF arg = "" THEN Tail(hpc) ELSE <<>>

\* a call of a backend operation: what it was asked for and, when its callback
\* is part of the same step, what it gave ("err", or what it found)
BackendCall(op, image, tag, gave) ==
    [op |-> op, image |-> image, tag |-> tag, digest |-> "", gave |-> gave]
Invoke(call) == backendCalls' = Append(backendCalls, call)

\* a handler that asks the backend and sends what it gets: error names the
\* error it passes on when the backend gives one
AskAndSend_noReturn(handler, op, error) ==
    /\ At(handler)
    /\ \E err \in BOOLEAN :
          /\ Invoke(BackendCall(op, "", "", IF err THEN "err" ELSE "ok"))
          /\ res' = [res EXCEPT !.sent = @ + 1]
          /\ nexts' = nexts \o (IF err THEN <<error>> ELSE <<>>) \o <<"">>
          /\ hpc' = IF err THEN <<>> ELSE Tail(hpc)
    /\ UNCHANGED <<req, events>>
    /\ UNCHANGED <<jobVars, volVars, testVars, frameVars, hostVars>>

AskAndSend(handler, op, error) ==
    /\ At(handler)
    /\ \E err \in BOOLEAN :
          /\ Invoke(BackendCall(op, "", "", IF err THEN "err" ELSE "ok"))
          /\ IF err
             THEN CallNext(error) /\ UNCHANGED res
             ELSE res' = [res EXCEPT !.sent = @ + 1] /\ CallNext("")
    /\ UNCHANGED <<req, events>>
    /\ UNCHANGED <<jobVars, volVars, testVars, frameVars, hostVars>>

\* a handler that is not of this file: it hands over, or ends the chain
\* with an error of its own
Foreign(handler, outcomes) ==
    /\ At(handler)
    /\ \E arg \in outcomes : CallNext(arg)
    /\ UNCHANGED <<req, res, events, backendCalls>>
    /\ UNCHANGED <<jobVars, volVars, testVars, frameVars, hostVars>>

\* ends the chain with the error, nothing else done
Refuse(handler, error) ==
    /\ At(handler)
    /\ CallNext(error)
    /\ UNCHANGED <<req, res, events, backendCalls>>
    /\ UNCHANGED <<jobVars, volVars, testVars, frameVars, hostVars>>

\* ---- the handlers ----
\* function reqParamsName(req, res, next)
ReqParamsName ==
    /\ At("reqParamsName")
    /\ req' = [req EXCEPT !.params.name = Str(unescape(req.params.p1.s))]
    /\ CallNext("")
    /\ UNCHANGED <<res, events, backendCalls>>
    /\ UNCHANGED <<jobVars, volVars, testVars, frameVars, hostVars>>

\* the handlers register is given or takes from elsewhere
Before == Foreign("before", {"", "Error"})
CheckApprovedForProvisioning == Foreign("checkApprovedForProvisioning", {"", "Error"})
QueryParser == Foreign("queryParser", {""})
ReqRegAuth == Foreign("reqRegAuth", {"", "Error"})

\* what the backend finds: the tag and the image of each of the n tags of a
\* repository
TagOf(i) == "tag" \o ToString(i)
ImageOf(i) == "img" \o ToString(i)

\* function reqImage(req, res, next), with the callback it gives imgFromName
ReqImage_unchecked ==
    /\ At("reqImage")
    /\ \E gave \in {"err", "none", "img"} :
          /\ Invoke(BackendCall("imgFromName", req.params.name.s, "", gave))
          /\ CASE gave = "err" -> CallNext("BackendError") /\ UNCHANGED req
               [] gave = "none" -> CallNext("") /\ UNCHANGED req
               [] gave = "img" -> req' = [req EXCEPT !.image = ImageOf(1)] /\ CallNext("")
    /\ UNCHANGED <<res, events>>
    /\ UNCHANGED <<jobVars, volVars, testVars, frameVars, hostVars>>
ReqImage ==
    /\ At("reqImage")
    /\ \E gave \in {"err", "none", "img"} :
          /\ Invoke(BackendCall("imgFromName", req.params.name.s, "", gave))
          /\ CASE gave = "err" -> CallNext("BackendError") /\ UNCHANGED req
               [] gave = "none" -> CallNext("ResourceNotFoundError") /\ UNCHANGED req
               [] gave = "img" -> req' = [req EXCEPT !.image = ImageOf(1)] /\ CallNext("")
    /\ UNCHANGED <<res, events>>
    /\ UNCHANGED <<jobVars, volVars, testVars, frameVars, hostVars>>

\* function reqImagesAndTags(req, res, next), with the callback it gives
\* tagsFromRepoName and the pipeline of imgFromConfigDigest calls: n tags
\* found, the lookup of tag failAt failing (0: none fails)
ReqImagesAndTags ==
    /\ At("reqImagesAndTags")
    /\ LET tagsFromRepoName(gave) ==
               BackendCall("tagsFromRepoName", req.params.name.s, req.query.tag.s, gave)
           lookup(i, gave) == BackendCall("imgFromConfigDigest", "", TagOf(i), gave)
       IN \/ /\ Invoke(tagsFromRepoName("err"))
             /\ CallNext("BackendError")
             /\ UNCHANGED req
          \/ /\ Invoke(tagsFromRepoName("0"))
             /\ CallNext("ResourceNotFoundError")
             /\ UNCHANGED req
          \/ \E n \in 1..MaxTags : \E failAt \in 0..n :
                LET looked == IF failAt = 0 THEN n ELSE failAt
                    got == IF failAt = 0 THEN n ELSE failAt - 1
                IN /\ backendCalls' =
                          Append(backendCalls, tagsFromRepoName(ToString(n))) \o
                          [i \in 1..looked |->
                              lookup(i, IF i = failAt THEN "err" ELSE "img")]
                   /\ req' = [req EXCEPT !.images = [i \in 1..got |-> ImageOf(i)],
                                         !.imageTags = [i \in 1..n |-> TagOf(i)]]
                   /\ CallNext(IF failAt = 0 THEN "" ELSE "BackendError")
    /\ UNCHANGED <<res, events>>
    /\ UNCHANGED <<jobVars, volVars, testVars, frameVars, hostVars>>

\* function imageList(req, res, next)
ImageList == AskAndSend("imageList", "listImages", "DockerError")

\* String.prototype.slice(-n)
sliceLast(str, n) == SubSeq(str, IF Len(str) > n THEN Len(str) - n + 1 ELSE 1, Len(str))

\* var all of imageCreate: whether the request is a 'docker pull -a'
all_noUnwind(query, rat) ==
    /\ ~Truthy(query.tag)
    /\ rat.tag = "latest"

all(query, rat) ==
    /\ ~Truthy(query.tag)
    /\ rat.tag # "" /\ rat.tag = "latest"
    /\ sliceLast(query.fromImage.s, Len(":latest")) # ":latest"

\* function imageCreate(req, res, next), up to the call of pullImage
ImageCreate ==
    /\ At("imageCreate")
    /\ LET query == req.query
           parsed == parseRepoAndRef(query.fromImage)
           rat == IF ~Truthy(query.tag) THEN parsed
                  ELSE IF substr(query.tag.s, 0, 7) = "sha256:"
                  THEN [parsed EXCEPT !.digest = query.tag.s, !.tag = ""]
                  ELSE [parsed EXCEPT !.tag = query.tag.s]
       IN IF query.fromSrc # Undefined
          THEN CallNext("NotImplementedError: image create") /\ UNCHANGED <<res, backendCalls>>
          ELSE IF ~parsed.ok
          THEN CallNext("DockerError") /\ UNCHANGED <<res, backendCalls>>
          ELSE IF all(query, parsed)
          THEN CallNext("NotImplementedError: docker pull -a") /\ UNCHANGED <<res, backendCalls>>
          ELSE /\ res' = [res EXCEPT !.statusCode = 200]
               /\ Invoke([BackendCall("pullImage", rat.name, rat.tag, "")
                             EXCEPT !.digest = rat.digest])
               /\ hpc' = <<"pullImage">>
               /\ UNCHANGED nexts
    /\ UNCHANGED <<req, events>>
    /\ UNCHANGED <<jobVars, volVars, testVars, frameVars, hostVars>>

\* backend.pullImage and backend.pushImage report events to the response
\* they are given while they pull or push
BackendReports ==
    /\ At("pullImage") \/ At("pushImage")
    /\ Len(res.writes) < MaxWrites
    /\ LET BackendEvents ==
               {[id |-> Str(substr(DockerId, 0, MaxIdLen)),
                 status |-> Str("Pulling fs layer"), progressDetail |-> Undefined],
                [id |-> Undefined, status |-> Str("Download complete"),
                 progressDetail |-> Obj("{}")]}
       IN \E progress \in BackendEvents : writeProgress(progress) \/ writeStatus(progress)
    /\ UNCHANGED <<req, hpc, nexts, backendCalls>>
    /\ UNCHANGED <<jobVars, volVars, testVars, frameVars, hostVars>>

\* the callback imageCreate gives pullImage
PullImageDone ==
    /\ At("pullImage")
    /\ res' = [res EXCEPT !.ended = @ + 1]
    /\ CallNext("false")
    /\ UNCHANGED <<req, events, backendCalls>>
    /\ UNCHANGED <<jobVars, volVars, testVars, frameVars, hostVars>>

\* function imageInspect(req, res, next)
ImageInspect == AskAndSend("imageInspect", "inspectImage", "BackendError")

\* function imageHistory(req, res, next)
ImageHistory == AskAndSend("imageHistory", "getImageHistory", "BackendError")

\* var idx of imagePush: the number of pushImage calls made
idx == Len(SelectSeq(backendCalls, LAMBDA c : c.op = "pushImage"))

\* what pushImage gave its callback, kept with the call
pushImageCb(err) ==
    [backendCalls EXCEPT ![Len(backendCalls)].gave = IF err THEN "err" ELSE "ok"]

\* _pushOneImage(img, cb), img the next of req.images, after the calls made
pushOneImage_firstTag(made) ==
    backendCalls' =
        Append(made, BackendCall("pushImage", req.images[idx + 1], req.imageTags[1], ""))

pushOneImage(made) ==
    backendCalls' =
        Append(made, BackendCall("pushImage", req.images[idx + 1], req.imageTags[idx + 1], ""))

\* function imagePush(req, res, next), up to the first call of pushImage
ImagePush ==
    /\ At("imagePush")
    /\ IF ~parseRepoAndTag(req.params.name)
       THEN CallNext("DockerError") /\ UNCHANGED <<res, events, backendCalls>>
       ELSE LET msgPayload ==
                    [id |-> Undefined,
                     status |-> Str("The push refers to a repository [" \o
                                    req.params.name.s \o "]"),
                     progressDetail |-> Undefined]
            IN /\ res' = [res EXCEPT !.statusCode = 200,
                                     !.writes = Append(@, JSONprogress(msgPayload) \o "\r\n")]
               /\ events' = Append(events, [fn |-> "imagePush", progress |-> msgPayload,
                                            written |-> msgPayload])
               /\ pushOneImage(backendCalls)
               /\ hpc' = <<"pushImage">>
               /\ UNCHANGED nexts
    /\ UNCHANGED req
    /\ UNCHANGED <<jobVars, volVars, testVars, frameVars, hostVars>>

\* pushImage calls cb: the pipeline goes to the next image, or ends with
\* _vasyncPipelinePushCb
PushImageDone_passesError ==
    /\ At("pushImage")
    /\ \E err \in BOOLEAN :
          IF err \/ idx = Len(req.images)
          THEN /\ res' = [res EXCEPT !.ended = @ + 1]
               /\ CallNext(IF err THEN "BackendError" ELSE "")
               /\ backendCalls' = pushImageCb(err)
          ELSE pushOneImage(pushImageCb(err)) /\ UNCHANGED <<res, hpc, nexts>>
    /\ UNCHANGED <<req, events>>
    /\ UNCHANGED <<jobVars, volVars, testVars, frameVars, hostVars>>
PushImageDone ==
    /\ At("pushImage")
    /\ \E err \in BOOLEAN :
          IF err \/ idx = Len(req.images)
          THEN /\ res' = [res EXCEPT !.ended = @ + 1]
               /\ CallNext("")
               /\ backendCalls' = pushImageCb(err)
          ELSE pushOneImage(pushImageCb(err)) /\ UNCHANGED <<res, hpc, nexts>>
    /\ UNCHANGED <<req, events>>
    /\ UNCHANGED <<jobVars, volVars, testVars, frameVars, hostVars>>

\* function imageChanges(req, res, next): register gives it to no route
ImageChanges == Refuse("imageChanges", "NotImplementedError: image changes")

\* function imageTag(req, res, next), with the callback it gives tagImage
ImageTag_statusFirst ==
    /\ At("imageTag")
    /\ LET repoAndTag ==
               (IF Truthy(req.query.repo) THEN req.query.repo.s ELSE "") \o
               (IF Truthy(req.query.tag) THEN ":" \o req.query.tag.s ELSE "")
       IN IF ~parseRepoAndTag(Str(repoAndTag))
          THEN CallNext("DockerError") /\ UNCHANGED <<res, backendCalls>>
          ELSE \E err \in BOOLEAN :
                  /\ Invoke(BackendCall("tagImage", req.image, repoAndTag,
                                        IF err THEN "err" ELSE "ok"))
                  /\ IF err
                     THEN /\ res' = [res EXCEPT !.statusCode = 201]
                          /\ CallNext("BackendError")
                     ELSE /\ res' = [res EXCEPT !.statusCode = 201, !.ended = @ + 1]
                          /\ CallNext("")
    /\ UNCHANGED <<req, events>>
    /\ UNCHANGED <<jobVars, volVars, testVars, frameVars, hostVars>>
ImageTag ==
    /\ At("imageTag")
    /\ LET repoAndTag ==
               (IF Truthy(req.query.repo) THEN req.query.repo.s ELSE "") \o
               (IF Truthy(req.query.tag) THEN ":" \o req.query.tag.s ELSE "")
       IN IF ~parseRepoAndTag(Str(repoAndTag))
          THEN CallNext("DockerError") /\ UNCHANGED <<res, backendCalls>>
          ELSE \E err \in BOOLEAN :
                  /\ Invoke(BackendCall("tagImage", req.image, repoAndTag,
                                        IF err THEN "err" ELSE "ok"))
                  /\ IF err
                     THEN CallNext("BackendError") /\ UNCHANGED res
                     ELSE /\ res' = [res EXCEPT !.statusCode = 201, !.ended = @ + 1]
                          /\ CallNext("")
    /\ UNCHANGED <<req, events>>
    /\ UNCHANGED <<jobVars, volVars, testVars, frameVars, hostVars>>

\* function imageDelete(req, res, next)
ImageDelete == AskAndSend("imageDelete", "deleteImage", "BackendError")

\* function imageSearch(req, res, next), with the callback it gives
\* regClient.search
ImageSearch ==
    /\ At("imageSearch")
    /\ IF ~parseRepo(req.query.term)
       THEN CallNext("ValidationError") /\ UNCHANGED res
       ELSE \E err \in BOOLEAN :
               IF err
               THEN CallNext("BackendError") /\ UNCHANGED res
               ELSE res' = [res EXCEPT !.sent = @ + 1] /\ CallNext("")
    /\ UNCHANGED <<req, events, backendCalls>>
    /\ UNCHANGED <<jobVars, volVars, testVars, frameVars, hostVars>>

\* function imageGet(req, res, next)
ImageGet == Refuse("imageGet", "NotImplementedError: image get")

\* function imageLoad(req, res, next)
ImageLoad == Refuse("imageLoad", "NotImplementedError: image load")

(***************************************************************************)
(* uncaughtHandler (common.js): what the server does with an exception a   *)
(* handler let escape.                                                     *)
(***************************************************************************)
\* the errors that may escape a handler, and the route they escaped from
UncaughtErrors ==
    [name : {"TypeError", "AssertionError", "RangeError"},
     message : {"Cannot read property 'error' of undefined",
                "images (array) is required",
                "connect ECONNREFUSED 10.0.0.7:2020"}]

UncaughtRoutes == {Undefined, [name |-> Str("imagepush")], [name |-> Str("imagecreate")]}

\* new restify.InternalError(cause, message): a 500 whose body holds the
\* code and the message given; the cause stays on the error object
InternalError_causeMessage(cause, message) ==
    [statusCode |-> 500,
     body |-> [code |-> "InternalError", message |-> cause.message],
     cause |-> cause]

InternalError(cause, message) ==
    [statusCode |-> 500,
     body |-> [code |-> "InternalError", message |-> message],
     cause |-> cause]

\* res.send(error): the error's status code and its body as JSON
SendError(error) ==
    [statusCode |-> error.statusCode,
     body |-> "{\"code\":\"" \o error.body.code
                  \o "\",\"message\":\"" \o error.body.message \o "\"}"]

UncaughtIdle == clientSaw = <<>> /\ serverLog = <<>>

uncaughtHandler(err, route) ==
    /\ Len(clientSaw) < MaxUncaught
    /\ clientSaw' = Append(clientSaw, SendError(InternalError(err, "Internal error")))
    /\ serverLog' = Append(serverLog,
                           [level |-> "error",
                            err |-> err,
                            route |-> IF route = Undefined THEN Undefined ELSE route.name,
                            msg |-> "Uncaught exception"])
    /\ UNCHANGED <<jobVars, volVars, testVars, httpVars, scriptVars>>

UncaughtHandler == \E err \in UncaughtErrors, route \in UncaughtRoutes : uncaughtHandler(err, route)

(***************************************************************************)
(* The setup script of the client zone: it fetches its tools, then gets    *)
(* the docker clients in a loop of three attempts and marks itself done.   *)
(***************************************************************************)
\* the exit statuses a command may give
ExitStatuses == {0, 1, 2, 127}

\* for i in {3..1}
ForList == <<3, 2, 1>>

ScriptIdle ==
    /\ spc = "prepare"
    /\ todo = ForList
    /\ exit_status = "" /\ got_docker_clients_successfully = ""
    /\ ran = <<>>
    /\ marker = FALSE
    /\ scriptExit = -1

\* exit, or a command failing under errexit
Exit(status) == spc' = "exited" /\ scriptExit' = status

\* mkdir, curl and chmod of the tools, under errexit
Prepare ==
    /\ spc = "prepare"
    /\ \E status \in ExitStatuses :
          IF status = 0 THEN spc' = "for" /\ UNCHANGED scriptExit ELSE Exit(status)
    /\ UNCHANGED <<todo, exit_status, got_docker_clients_successfully, ran, marker>>
    /\ UNCHANGED <<jobVars, volVars, testVars, httpVars, uncaughtVars>>

\* for i in {3..1}; do ... done
For ==
    /\ spc = "for"
    /\ IF todo # <<>>
       THEN spc' = "run" /\ todo' = Tail(todo)
       ELSE spc' = "check" /\ UNCHANGED todo
    /\ UNCHANGED <<exit_status, got_docker_clients_successfully, ran, marker, scriptExit>>
    /\ UNCHANGED <<jobVars, volVars, testVars, httpVars, uncaughtVars>>

\* ./get-docker-clients.sh between set +o errexit and set -o errexit
GetDockerClients ==
    /\ spc = "run"
    /\ \E status \in ExitStatuses :
          /\ exit_status' = status
          /\ ran' = Append(ran, status)
    /\ spc' = "test"
    /\ UNCHANGED <<todo, got_docker_clients_successfully, marker, scriptExit>>
    /\ UNCHANGED <<jobVars, volVars, testVars, httpVars, uncaughtVars>>

\* if [[ $exit_status -eq 0 ]]; then ...; break; fi
TestExitStatus_noBreak ==
    /\ spc = "test"
    /\ IF exit_status = 0
       THEN got_docker_clients_successfully' = "yes" /\ spc' = "for"
       ELSE spc' = "for" /\ UNCHANGED got_docker_clients_successfully
    /\ UNCHANGED <<todo, exit_status, ran, marker, scriptExit>>
    /\ UNCHANGED <<jobVars, volVars, testVars, httpVars, uncaughtVars>>

TestExitStatus ==
    /\ spc = "test"
    /\ IF exit_status = 0
       THEN got_docker_clients_successfully' = "yes" /\ spc' = "check"
       ELSE spc' = "for" /\ UNCHANGED got_docker_clients_successfully
    /\ UNCHANGED <<todo, exit_status, ran, marker, scriptExit>>
    /\ UNCHANGED <<jobVars, volVars, testVars, httpVars, uncaughtVars>>

\* if [[ "$got_docker_clients_successfully" != "yes" ]]; then ...; exit 1; fi
CheckGot ==
    /\ spc = "check"
    /\ IF got_docker_clients_successfully # "yes"
       THEN Exit(1)
       ELSE spc' = "touch" /\ UNCHANGED scriptExit
    /\ UNCHANGED <<todo, exit_status, got_docker_clients_successfully, ran, marker>>
    /\ UNCHANGED <<jobVars, volVars, testVars, httpVars, uncaughtVars>>

\* touch /var/svc/user-script-done, the last command, under errexit
Touch ==
    /\ spc = "touch"
    /\ \E status \in ExitStatuses :
          /\ marker' = (status = 0)
          /\ Exit(status)
    /\ UNCHANGED <<todo, exit_status, got_docker_clients_successfully, ran>>
    /\ UNCHANGED <<jobVars, volVars, testVars, httpVars, uncaughtVars>>

(***************************************************************************)
(* The specifications.                                                     *)
(***************************************************************************)
HttpIdle == ProgressIdle /\ FrameIdle /\ ImgIdle

HostIdle == UncaughtIdle /\ ScriptIdle

InitJob == JobIdle /\ StoreWith({}) /\ InitTest /\ HttpIdle /\ HostIdle

InitVol ==
    /\ \E S \in StaleSets : Cardinality(S) <= MaxStale /\ StoreWith(S)
    /\ JobIdle
    /\ InitTest
    /\ HttpIdle
    /\ HostIdle

\* the test starts after 'cleanup leftover resources': no volume is listed,
\* while rows that are not ready may be left
InitDocker880 ==
    /\ \E S \in StaleSets : StoreWith(S)
    /\ JobIdle
    /\ InitTest
    /\ HttpIdle
    /\ HostIdle

NextJob ==
    \/ WaitForJob
    \/ TimerFires
    \/ GetJobErr
    \/ GetJobOk
    \/ JobRuns
    \/ JobEnds

NextVol ==
    \/ ClientCreates
    \/ ClientDeletes
    \/ ClientLists
    \/ CreateJobEnds
    \/ CreateReturns
    \/ DeletionJobEnds


NextDocker880 ==
    \/ T_CreateTestVolume
    \/ T_VolumeCreated
    \/ T_ListVolumes
    \/ T_GetVolumeUuid
    \/ T_RmVolume
    \/ CreateJobEnds
    \/ CreateReturns
    \/ DeletionJobEnds

SpecJob == InitJob /\ [][NextJob]_vars

\* waitForJob called for a request that its client may abandon
NextAbandon ==
    \/ WaitForJob
    \/ TimerFires
    \/ GetJobErr
    \/ GetJobOk
    \/ JobRuns
    \/ JobEnds
    \/ Abandon

SpecAbandon == InitJob /\ [][NextAbandon]_vars

SpecVol == InitVol /\ [][NextVol]_vars

SpecDocker880 == InitDocker880 /\ [][NextDocker880]_vars

\* the stream helpers, called by any caller with any progress object
InitProgress ==
    /\ ProgressIdle
    /\ FrameIdle /\ ImgIdle
    /\ JobIdle /\ StoreWith({}) /\ InitTest
    /\ HostIdle

NextProgress ==
    \/ WriteProgress
    \/ WriteStatus

SpecProgress == InitProgress /\ [][NextProgress]_vars

\* writeToDockerRawStream, called with any type and data
InitFrame ==
    /\ FrameCall
    /\ ProgressIdle /\ ImgIdle
    /\ JobIdle /\ StoreWith({}) /\ InitTest
    /\ HostIdle

SpecFrame == InitFrame /\ [][WriteToDockerRawStream]_vars

\* the image endpoints, serving any request for a path under /images
InitImages ==
    /\ RequestArrives
    /\ res = NoResponse /\ events = <<>>
    /\ FrameIdle
    /\ JobIdle /\ StoreWith({}) /\ InitTest
    /\ HostIdle

NextImages ==
    \/ Dispatch
    \/ ReqParamsName
    \/ Before
    \/ CheckApprovedForProvisioning
    \/ QueryParser
    \/ ReqRegAuth
    \/ ReqImage
    \/ ReqImagesAndTags
    \/ ImageList
    \/ ImageCreate
    \/ BackendReports
    \/ PullImageDone
    \/ ImageInspect
    \/ ImageHistory
    \/ ImagePush
    \/ PushImageDone
    \/ ImageTag
    \/ ImageDelete
    \/ ImageSearch
    \/ ImageGet
    \/ ImageLoad

SpecImages == InitImages /\ [][NextImages]_vars

\* the server handling the exceptions its handlers let escape
InitUncaught ==
    /\ UncaughtIdle /\ ScriptIdle
    /\ HttpIdle
    /\ JobIdle /\ StoreWith({}) /\ InitTest

SpecUncaught == InitUncaught /\ [][UncaughtHandler]_vars

\* one run of the setup script in a new client zone
InitScript ==
    /\ ScriptIdle
    /\ UncaughtIdle /\ HttpIdle
    /\ JobIdle /\ StoreWith({}) /\ InitTest

NextScript ==
    \/ Prepare
    \/ For
    \/ GetDockerClients
    \/ TestExitStatus
    \/ CheckGot
    \/ Touch

SpecScript == InitScript /\ [][NextScript]_vars


(***************************************************************************)
(* What waitForJob's caller has seen.                                      *)
(***************************************************************************)
Ended == jpc \in {"done", "threw"}
CbFetchError == cbArgs = << <<FetchError>> >>
CbTimeout == cbArgs = << <<TimeoutError>> >>
CbSuccess == cbArgs = << <<>> >>
LastResult(j) == j.chain_results[Len(j.chain_results)]
SawExecution(e) == Ended /\ job.present /\ job.execution = e

(***************************************************************************)
(* Claims about waitForJob.                                                *)
(***************************************************************************)

\* C1 (as stated in the claim): waitForJob fails with the fetch error only
\* when a 6th consecutive getJob error occurs, and then without polling again.
C1_FailsOnlyAtSixthError ==
    CbFetchError => (consec = 6 /\ calls = attempts)

\* C1 (amended): waitForJob tolerates 4 fetch errors and fails on the 5th.
\* With fewer than 5 fetch errors it never fails with the fetch error, and a
\* succeeded job whose last step has no error then ends in success; as soon
\* as the 5th fetch error has been counted the call is over, with the fetch
\* error as the only callback and no getJob call after the failed one.
C1_FailsAtFifthError ==
    /\ errors <= 5
    /\ errors <= 4 => ~CbFetchError
    /\ errors = 5 => (jpc = "done" /\ CbFetchError /\ calls = attempts)
    /\ (/\ SawExecution("succeeded")
        /\ Len(job.chain_results) > 0
        /\ ~LastResult(job).error.set) => CbSuccess

\* C1 witness: four fetch errors in a row, then a succeeded job, and
\* waitForJob has reported success.
C1_SurvivesFourErrors ==
    /\ jpc = "done"
    /\ attempts = 5
    /\ totalErrs = 4
    /\ maxRun = 4
    /\ job.execution = "succeeded"
    /\ CbSuccess

\* C2 (as stated in the claim): as long as no run of consecutive fetch errors
\* is longer than 5, waitForJob does not fail with a fetch error.
C2_OnlyConsecutiveErrorsCount ==
    maxRun <= 5 => ~CbFetchError

\* C2 (amended): the error budget counts every fetch error of the call: the
\* count is never reset by a getJob answer without error, and waitForJob has
\* failed with the fetch error exactly when 5 fetch errors have occurred in
\* total, whatever the length of the runs they came in.
C2_AllErrorsCount ==
    /\ errors = totalErrs
    /\ CbFetchError <=> totalErrs = 5
    /\ maxRun <= totalErrs

\* C2 witness: waitForJob failed with the fetch error although no two fetch
\* errors were consecutive.
C2_FailsOnScatteredErrors ==
    /\ CbFetchError
    /\ maxRun = 1
    /\ attempts = 9

\* C3 (as stated in the claim): while every poll answers with a job that is
\* not terminal, at most 720 getJob calls are issued.
C3_AtMost720Calls ==
    totalErrs = 0 => calls <= 720

\* C3 (amended): while every poll answers without a fetch error and without a
\* terminal job, waitForJob issues 721 getJob calls: the timeout error comes
\* with the answer to the 721st call, and there is no 722nd call.
C3_TimeoutAfter721Calls ==
    /\ totalErrs = 0 => calls <= 721
    /\ (totalErrs = 0 /\ CbTimeout) => (attempts = 721 /\ calls = 721)
    /\ (totalErrs = 0 /\ attempts = 721) => (Ended /\ calls = 721)
    /\ CbTimeout => (jpc = "done" /\ attempts > 720 /\ calls = attempts)

\* C3 witness: the job was still running at every poll and waitForJob has
\* failed with the timeout error after 721 calls.
C3_TimedOutWhileRunning ==
    /\ CbTimeout
    /\ totalErrs = 0
    /\ calls = 721
    /\ job.present
    /\ job.execution = "running"

\* C4 (as stated in the claim): once a poll has seen the job failed,
\* waitForJob has called back with an error whose message is the error of
\* the last entry of the job's chain_results, and never with success.
C4_FailedJobReportsError ==
    SawExecution("failed") =>
        /\ Len(job.chain_results) > 0
        /\ cbArgs = << <<Errmsg(LastResult(job).error)>> >>

NonReadyNamed(n, k) == {v \in Matching(n, k) : v.state \in NonReady}
ReadyNamed(n, k) == {v \in Matching(n, k) : v.state = "ready"}
\* the step is a client request of the given kind being answered (a create
\* is answered later, and changes the requests in flight)
Answered(op) == ops' = ops + 1 /\ creating' = creating /\ answer'.op = op

\* C6: in the run create, delete, create, delete of one volume name that had
\* no listed volume, each listing after a create that succeeded shows one
\* volume of that name and each listing after a delete shows none, and each
\* delete after a create that succeeded succeeds, whatever rows of that
\* name that are not ready are in the store.
C6_ListsOneThenNone ==
    /\ \A i \in 1..Len(testVolumesLengths) :
          testVolumesLengths[i] =
              IF i \in {1, 3} /\ createOk[(i + 1) \div 2] THEN 1 ELSE 0
    /\ \A i \in 1..Len(rmOk) : rmOk[i] = createOk[i]

\* C6 witness: the whole test has run with both creates succeeding, the four
\* listings showed 1, 0, 1, 0 volumes, and rows of that name that are not
\* ready, the first cycle's among them, are still in the store.
C6_CyclesDoneWithStaleRows ==
    /\ tpc = 11
    /\ createOk = <<TRUE, TRUE>>
    /\ testVolumesLengths = <<1, 0, 1, 0>>
    /\ firstVolumeUuid \in {v.uuid : v \in NonReadyNamed(testVolumeName, "volume")}
    /\ Cardinality(NonReadyNamed(testVolumeName, "volume")) >= 2

\* C7: every delete(name, kind) acts on the ready record of that name.  If
\* the store holds one, the answer is ok, the identifier the removal is
\* issued with is that of a record that was ready, exactly that record
\* leaves state ready and no other record changes; if it holds none, the
\* answer is not-found and the store is left as it was.
C7_DeleteActsOnReadyRecord ==
    [][Answered("delete") =>
          LET R == ReadyNamed(answer'.name, answer'.kind) IN
          IF R = {}
          THEN answer'.status = "not found" /\ volumes' = volumes
          ELSE /\ answer'.status = "ok"
               /\ \E v \in R :
                     /\ v.uuid = answer'.uuid
                     /\ volumes' = (volumes \ {v}) \cup {[v EXCEPT !.state = "deleting"]}
      ]_vars

\* C7 witness: a delete has just removed a record, now deleting, whose name
\* and kind a later-created record that is not ready shares.
C7_DeletedAmongNonReady ==
    /\ answer.op = "delete"
    /\ answer.status = "ok"
    /\ \E v \in volumes, w \in volumes :
          /\ v.uuid = answer.uuid
          /\ v.state = "deleting"
          /\ w.name = v.name /\ w.kind = v.kind
          /\ w.uuid > v.uuid
          /\ w.state \in {"creating", "failed"}

\* C8: every list(kind, filters) answers with exactly the records of the
\* store that are ready, of that kind, and match the name filter: no record
\* in state creating, deleting or failed is in the answer, and no matching
\* ready record is missing from it.
C8_ListIsTheReadyRecords ==
    [][Answered("list") =>
          /\ \A v \in answer'.result :
                /\ v \in volumes
                /\ v.state = "ready"
                /\ v.state \notin NonReady
                /\ v.kind = answer'.kind
                /\ answer'.name \in {"", v.name}
          /\ \A v \in volumes :
                (/\ v.state = "ready"
                 /\ v.kind = answer'.kind
                 /\ answer'.name \in {"", v.name}) => v \in answer'.result
      ]_vars

\* C8 witness: a list by name has answered with a ready record while a
\* record of the same name and kind that is not ready is in the store.
C8_ListedBesideNonReady ==
    /\ answer.op = "list"
    /\ answer.name # ""
    /\ answer.result # {}
    /\ answer.result \subseteq volumes
    /\ NonReadyNamed(answer.name, answer.kind) # {}

\* C9: when both creates of the test succeeded, the identifier of the ready
\* volume after the second create differs from the one after the first, and
\* each time exactly one volume of that name was ready.
C9_SecondUuidDiffers ==
    (tpc > 7 /\ createOk = <<TRUE, TRUE>>) =>
        /\ readyLengths = <<1, 1>>
        /\ firstVolumeUuid # 0
        /\ volumeUuid # 0
        /\ volumeUuid # firstVolumeUuid
        /\ volumeUuid > firstVolumeUuid

\* C9 witness: the second identifier has been read while the record of the
\* first cycle is still in the store, not ready.
C9_SecondUuidReadBesideFirst ==
    /\ tpc = 8
    /\ createOk = <<TRUE, TRUE>>
    /\ volumeUuid # 0
    /\ \E v \in volumes : v.uuid = firstVolumeUuid /\ v.state \in NonReady

(***************************************************************************)
(* What was written to the response.                                       *)
(***************************************************************************)
\* the events written by the function fn, as places in events and res.writes
WrittenBy(fn) == {i \in 1..Len(events) : events[i].fn = fn}
HasDetailObject(text) == Includes(text, "\"progressDetail\":{")
HasEmptyDetail(text) == Includes(text, "\"progressDetail\":{}}")

(***************************************************************************)
(* Claims about the stream helpers.                                        *)
(***************************************************************************)
\* C11 (as stated): every event written through writeProgress or writeStatus
\* is serialized with a progressDetail member that is an object.
C11_DetailAlwaysSerialized ==
    \A i \in 1..Len(events) : HasDetailObject(res.writes[i])

\* C11 (amended): an event written through writeProgress is serialized with a
\* progressDetail object, the empty one when the caller gave none; an event
\* written through writeStatus carries the detail object the caller gave and
\* has no progressDetail member when the caller gave none.
C11_DetailDefaultedByWriteProgressOnly ==
    /\ \A i \in WrittenBy("writeProgress") :
          /\ HasDetailObject(res.writes[i])
          /\ ~Truthy(events[i].progress.progressDetail) => HasEmptyDetail(res.writes[i])
    /\ \A i \in WrittenBy("writeStatus") :
          /\ events[i].progress.progressDetail.t = "object" => HasDetailObject(res.writes[i])
          /\ events[i].progress.progressDetail = Undefined =>
                ~Includes(res.writes[i], "progressDetail")

\* C11 witness: both functions have written an event made without a detail.
C11_BothWroteWithoutDetail ==
    /\ \E i \in WrittenBy("writeProgress") : events[i].progress.progressDetail = Undefined
    /\ \E i \in WrittenBy("writeStatus") : events[i].progress.progressDetail = Undefined

\* C12: the id of a formatted event is the first 12 characters of the
\* identifier given (the whole of it when it is shorter), the empty string
\* when none is given; the status is the one given.
C12_IdIsFirstTwelveCharacters ==
    \A i \in WrittenBy("writeProgress") \cup WrittenBy("writeStatus") :
        LET given == events[i].progress.id
            id == events[i].written.id
        IN /\ id.t = "string"
           /\ given = Undefined => id.s = ""
           /\ given.t = "string" =>
                 /\ Len(id.s) = IF Len(given.s) < 12 THEN Len(given.s) ELSE 12
                 /\ given.s = id.s \o SubSeq(given.s, Len(id.s) + 1, Len(given.s))
           /\ events[i].written.status = events[i].progress.status
           /\ Includes(res.writes[i], "\"id\":\"" \o id.s \o "\",")

\* C12 witness: an event was written with an identifier longer than 12
\* characters, and one with a shorter identifier.
C12_LongAndShortIdsWritten ==
    /\ \E i \in 1..Len(events) : Len(events[i].progress.id.s) > 12
    /\ \E i \in 1..Len(events) : Len(events[i].progress.id.s) \in 1..11

\* C13 (as stated): every message written to a pull or push stream is exactly
\* the JSON text of its event, the first message of a push included.
C13_EveryMessageIsBareJson ==
    /\ Len(res.writes) = Len(events)
    /\ \A i \in 1..Len(events) : res.writes[i] = JSONprogress(events[i].written)

\* C13 (amended): every event written through writeProgress or writeStatus
\* is one write of exactly its JSON text; the first message of a push, which
\* imagePush writes itself, is its JSON text followed by "\r\n".
C13_OnlyPushOpeningHasDelimiter ==
    /\ Len(res.writes) = Len(events)
    /\ \A i \in WrittenBy("writeProgress") \cup WrittenBy("writeStatus") :
          res.writes[i] = JSONprogress(events[i].written)
    /\ \A i \in WrittenBy("imagePush") :
          /\ i = 1
          /\ res.writes[i] = JSONprogress(events[i].written) \o "\r\n"

\* C13 witness: a push has written its first message and the backend has
\* reported an event after it.
C13_PushOpenedAndReported ==
    /\ 1 \in WrittenBy("imagePush")
    /\ 2 \in WrittenBy("writeProgress") \cup WrittenBy("writeStatus")

\* the bytes of the payload handed to writeToDockerRawStream
PayloadOf(data) == IF data.buffer THEN data.units ELSE utf8All(data.units)

\* the number four bytes stand for, most significant first
readUInt32BE(bytes) ==
    ((bytes[1] * 256 + bytes[2]) * 256 + bytes[3]) * 256 + bytes[4]

\* C14 (as stated): the message written is one frame: the code of the
\* channel, three zero bytes, the byte length of the payload on four bytes,
\* most significant first, then the bytes of the payload and nothing else.
C14_FrameCarriesThePayload ==
    \A i \in 1..Len(rawStream) :
        LET message == rawStream[i]
            payload == PayloadOf(frameData)
        IN /\ Len(message) = 8 + Len(payload)
           /\ message[1] = (IF frameType = "stdin" THEN 0
                            ELSE IF frameType = "stdout" THEN 1 ELSE 2)
           /\ SubSeq(message, 2, 4) = <<0, 0, 0>>
           /\ readUInt32BE(SubSeq(message, 5, 8)) = Len(payload)
           /\ SubSeq(message, 9, Len(message)) = payload

(***************************************************************************)
(* What a request has come to.                                             *)
(***************************************************************************)
\* the server has looked for the route of the request
Dispatched == req.route # ""
\* no handler is left to run
Over == Dispatched /\ hpc = <<>>
LastNext == nexts[Len(nexts)]
IsNotImplemented(arg) == Includes(arg, "NotImplementedError")
\* the handlers that are not of images.js let the request through
ForeignPassed == \A i \in 1..Len(nexts) : nexts[i] # "Error"
Called(op) == {i \in 1..Len(backendCalls) : backendCalls[i].op = op}
Gave(op, gave) == \E i \in Called(op) : backendCalls[i].gave = gave

\* the path is /images/<name>/<suffix>, with or without a version before it
NamedPath(suffix) ==
    LET rest == AfterVersion(req.path) IN
    Len(rest) >= 3 /\ rest[1] = "images" /\ rest[Len(rest)] = suffix
FixedPath(suffix) == AfterVersion(req.path) = <<"images", suffix>>
\* the text of the path between /images/ and the last segment
NameInPath ==
    LET rest == AfterVersion(req.path) IN Join(SubSeq(rest, 2, Len(rest) - 1))

(***************************************************************************)
(* Claims about the image endpoints.                                       *)
(***************************************************************************)
\* C15 (as stated): a request for an unsupported verb (create with fromSrc,
\* changes, get, load) that the common handlers let through ends with
\* NotImplementedError and no backend operation is invoked.
C15_UnsupportedVerbsNotImplemented ==
    LET unsupported ==
            \/ req.method = "POST" /\ FixedPath("create") /\ req.query.fromSrc # Undefined
            \/ req.method = "GET" /\ (NamedPath("changes") \/ NamedPath("get"))
            \/ req.method = "POST" /\ NamedPath("load")
    IN unsupported /\ Over /\ ForeignPassed =>
          /\ nexts # <<>> /\ IsNotImplemented(LastNext)
          /\ backendCalls = <<>>

\* C16: a request to /images/<name>/<suffix>, suffix one of json, history,
\* push, tag and the method the one of that endpoint, goes to the route of
\* the suffix, and req.params.name is then <name>, the text between
\* /images/ and the last segment (its %XX escapes decoded); the paths
\* /images/json, /images/create and /images/search go to list, create and
\* search, which set no name.
C16_SuffixDecidesRouteAndName ==
    LET named == {<<"GET", "json", "ImageInspect">>, <<"GET", "history", "ImageHistory">>,
                  <<"POST", "push", "ImagePush">>, <<"POST", "tag", "ImageTag">>}
        fixed == {<<"GET", "json", "ImageList">>, <<"POST", "create", "ImageCreate">>,
                  <<"GET", "search", "ImageSearch">>}
    IN Dispatched =>
          /\ \A r \in named :
                req.method = r[1] /\ NamedPath(r[2]) =>
                   /\ req.route = r[3]
                   /\ ~At("reqParamsName") =>
                         /\ req.params.name = Str(unescape(NameInPath))
                         /\ ~Includes(NameInPath, "%") => req.params.name.s = NameInPath
          /\ \A r \in fixed :
                req.method = r[1] /\ FixedPath(r[2]) =>
                   req.route = r[3] /\ req.params.name = Undefined

\* C16 witness: the history of the image busybox/json has been asked for,
\* and the request has come to imageHistory with that name.
C16_HistoryOfNameEndingInJson ==
    /\ req.method = "GET"
    /\ AfterVersion(req.path) = <<"images", "busybox", "json", "history">>
    /\ At("imageHistory")
    /\ req.params.name = Str("busybox/json")

\* C17: when imgFromName gives no image, or tagsFromRepoName an empty list,
\* the request ends there with ResourceNotFoundError: imageHistory,
\* imageTag and imagePush do not run, nothing is asked of the backend after
\* the lookup and the response is not touched.
C17_UnresolvedImageEndsChain ==
    Gave("imgFromName", "none") \/ Gave("tagsFromRepoName", "0") =>
        /\ Over
        /\ LastNext = "ResourceNotFoundError"
        /\ Len(backendCalls) = 1
        /\ res = NoResponse
        /\ events = <<>>

\* C17 witness: a push found no tag for the repository.
C17_PushFoundNoTag == req.route = "ImagePush" /\ Gave("tagsFromRepoName", "0")

\* C18: the status of a tag request is 201 only when tagImage has been
\* called and gave no error; when tagImage gave an error, or when imageTag
\* ran on a repo:tag that does not parse, the request ends with that error
\* and without status 201, in the second case without a call of tagImage.
C18_Status201OnlyAfterTagImage ==
    req.route = "ImageTag" =>
        /\ res.statusCode = 201 => Gave("tagImage", "ok") /\ Over /\ LastNext = ""
        /\ Gave("tagImage", "err") =>
              Over /\ LastNext = "BackendError" /\ res.statusCode # 201
        /\ Over /\ Len(nexts) = 5 /\ req.query.repo \in {Undefined, Str("A")} =>
              /\ LastNext = "DockerError"
              /\ Called("tagImage") = {}
              /\ res.statusCode # 201

\* C18 witness: tagImage has been called for a repo:tag that parses and gave
\* an error.
C18_TagImageFailed == req.route = "ImageTag" /\ Gave("tagImage", "err")

\* C19: in a pull or push request, a step taken once the status is 200
\* leaves it 200 and passes no error to next: when it calls next it has
\* ended the response and passes nothing or false; and a step in which
\* imageCreate or imagePush passes an error is taken with no status set.
C19_NoErrorOnceStreaming ==
    [][req.route \in {"ImageCreate", "ImagePush"} =>
          /\ res.statusCode = 200 =>
                /\ res'.statusCode = 200
                /\ nexts' # nexts =>
                      /\ nexts'[Len(nexts')] \in {"", "false"}
                      /\ res'.ended = 1
          /\ nexts' # nexts /\ nexts'[Len(nexts')] \notin {"", "false"} =>
                res.statusCode = 0 /\ res' = NoResponse]_vars

\* C19 witness: a push of two images has ended after the first pushImage
\* call, which failed: the response is ended, its status 200, and next was
\* called without an error.
C19_PushEndedAfterFailure ==
    /\ req.route = "ImagePush"
    /\ Over
    /\ Len(req.images) = 2
    /\ Cardinality(Called("pushImage")) = 1
    /\ res.statusCode = 200 /\ res.ended = 1
    /\ LastNext = ""

(***************************************************************************)
(* Claim about abandoning the request that waits for a job.                *)
(***************************************************************************)
\* C20 (as stated): once the request has been abandoned while pollJob waits
\* between two polls, no further getJob call is issued and the loop stops.
C20_NoPollAfterAbandon ==
    [][abandoned => calls' = calls]_vars

(***************************************************************************)
(* Claim about uncaughtHandler.                                            *)
(***************************************************************************)
\* C21: whatever error reaches uncaughtHandler, the client is sent the same
\* response, a 500 with code InternalError and message "Internal error": any
\* two errors give identical responses, the response holds neither the name
\* nor the message of the error, and the error itself is in the log record
C21_ClientSeesGenericError ==
    /\ Len(serverLog) = Len(clientSaw)
    /\ \A i, j \in 1..Len(clientSaw) : clientSaw[i] = clientSaw[j]
    /\ \A i \in 1..Len(clientSaw) :
          /\ clientSaw[i] = [statusCode |-> 500,
                             body |-> "{\"code\":\"InternalError\",\"message\":\"Internal error\"}"]
          /\ serverLog[i].err \in UncaughtErrors
          /\ ~Includes(clientSaw[i].body, serverLog[i].err.message)
          /\ ~Includes(clientSaw[i].body, serverLog[i].err.name)

\* two errors that differ in name and message have been handled
C21_TwoDifferentErrorsHandled ==
    /\ Len(clientSaw) = 2
    /\ serverLog[1].err.name # serverLog[2].err.name
    /\ serverLog[1].err.message # serverLog[2].err.message

(***************************************************************************)
(* Claims about pushing and pulling.                                       *)
(***************************************************************************)
\* the pushImage calls made so far, in order
Pushes == SelectSeq(backendCalls, LAMBDA c : c.op = "pushImage")

\* C22: imagePush runs only with req.images and req.imageTags of equal
\* length, the i-th image being the one looked up for the i-th tag; the i-th
\* pushImage call is given the i-th image and the i-th tag; a pair is pushed
\* only after every earlier pair was pushed without error (so one at a time,
\* in list order, and none after the first failure); and the response is
\* ended once, when the push is over, and never more than once
C22_PairsPushedInOrder ==
    (req.route = "ImagePush" /\ (At("imagePush") \/ Pushes # <<>>)) =>
        /\ Len(req.images) = Len(req.imageTags)
        /\ \A i \in 1..Len(req.images) :
              req.images[i] = ImageOf(i) /\ req.imageTags[i] = TagOf(i)
        /\ Len(Pushes) <= Len(req.images)
        /\ \A i \in 1..Len(Pushes) :
              /\ Pushes[i].image = req.images[i]
              /\ Pushes[i].tag = req.imageTags[i]
              /\ i < Len(Pushes) => Pushes[i].gave = "ok"
              /\ Pushes[i].gave = "" => At("pushImage")
        /\ res.ended <= 1
        /\ (Pushes # <<>> /\ Over) <=> res.ended = 1
        /\ (Pushes # <<>> /\ Pushes[Len(Pushes)].gave = "err") => Over

\* a push of two pairs is over after the first pair, whose pushImage failed
C22_FirstOfTwoPairsFailed ==
    /\ req.route = "ImagePush"
    /\ Len(req.images) = 2 /\ Len(req.imageTags) = 2
    /\ Len(Pushes) = 1 /\ Pushes[1].gave = "err"
    /\ res.ended = 1

\* both pairs of a push of two were pushed, the second after the first
C22_BothPairsPushed ==
    /\ req.route = "ImagePush"
    /\ Len(Pushes) = 2 /\ Pushes[1].gave = "ok" /\ Pushes[2].gave = "ok"
    /\ Over

\* imageCreate has run for the request: it called pullImage or called next
CreateRan ==
    /\ req.route = "ImageCreate"
    /\ At("pullImage") \/ (Over /\ Len(nexts) = 4)
\* ... and has come to the test for 'docker pull -a': no fromSrc, and a
\* fromImage that parses
CreateParsed == CreateRan /\ req.query.fromSrc = Undefined /\ parseRepoAndRef(req.query.fromImage).ok
PullAllRejected == \E i \in 1..Len(nexts) : nexts[i] = "NotImplementedError: docker pull -a"
EndsInLatest(str) == Len(str) >= 7 /\ SubSeq(str, Len(str) - 6, Len(str)) = ":latest"
Pulls == SelectSeq(backendCalls, LAMBDA c : c.op = "pullImage")

\* C23 (as stated): a pull is rejected as 'docker pull -a' exactly when the
\* request has no tag query parameter, the parsed reference has the tag
\* latest and fromImage does not end in ':latest'
C23_PullAllExactlyWithoutTagParameter ==
    CreateParsed =>
        (PullAllRejected <=>
            /\ req.query.tag = Undefined
            /\ parseRepoAndRef(req.query.fromImage).tag = "latest"
            /\ ~EndsInLatest(req.query.fromImage.s))

\* C23 (amended): a pull is rejected as 'docker pull -a' exactly when the tag
\* query parameter is absent or empty, the parsed reference has the tag
\* latest and fromImage does not end in ':latest'; so a reference with an
\* explicit ':latest', another tag, a digest, or a tag parameter that is not
\* empty is pulled; and a tag parameter that starts with 'sha256:' is the
\* digest pullImage is given, with an empty tag, any other tag parameter is
\* the tag, and without one tag and digest are those of the reference
C23_PullAllExactlyWithoutTag ==
    CreateParsed =>
        LET query == req.query
            rat == parseRepoAndRef(query.fromImage)
            noTag == query.tag \in {Undefined, Str("")}
        IN /\ PullAllRejected <=>
                 (noTag /\ rat.tag = "latest" /\ ~EndsInLatest(query.fromImage.s))
           /\ PullAllRejected <=> Pulls = <<>>
           /\ Len(Pulls) <= 1
           /\ \A i \in 1..Len(Pulls) :
                 /\ Pulls[i].image = rat.name
                 /\ IF noTag
                    THEN Pulls[i].tag = rat.tag /\ Pulls[i].digest = rat.digest
                    ELSE IF Len(query.tag.s) >= 7 /\ SubSeq(query.tag.s, 1, 7) = "sha256:"
                    THEN Pulls[i].digest = query.tag.s /\ Pulls[i].tag = ""
                    ELSE Pulls[i].tag = query.tag.s /\ Pulls[i].digest = rat.digest

\* a pull with an empty tag parameter was rejected as 'docker pull -a'
C23_EmptyTagRejected ==
    CreateParsed /\ PullAllRejected /\ req.query.tag = Str("")

\* a pull whose tag parameter is a digest went to pullImage
C23_DigestParameterPulled ==
    /\ CreateParsed /\ Pulls # <<>>
    /\ req.query.tag = Str("sha256:ab") /\ req.query.fromImage = Str("busybox")

\* a pull of a reference with an explicit ':latest' and no tag parameter
C23_ExplicitLatestPulled ==
    /\ CreateParsed /\ Pulls # <<>>
    /\ req.query.tag = Undefined /\ req.query.fromImage = Str("busybox:latest")

(***************************************************************************)
(* Claim about the setup script of the client zone.                        *)
(***************************************************************************)
\* the runs of get-docker-clients.sh that failed
Failed == {k \in 1..Len(ran) : ran[k] # 0}

\* C24: get-docker-clients.sh is run at most 3 times and never again after a
\* run that succeeded; the marker file is made only if a run succeeded; once
\* 3 runs have failed the marker is never made and the script, when it has
\* exited, has exited with status 1; and the script gives up only after 3
\* failed runs
C24_AtMostThreeAttempts ==
    /\ Len(ran) <= 3
    /\ \A k \in 1..Len(ran) : k < Len(ran) => ran[k] # 0
    /\ marker => \E k \in 1..Len(ran) : ran[k] = 0
    /\ Cardinality(Failed) = 3 => /\ ~marker
                                    /\ spc = "exited" => scriptExit = 1
    /\ (spc \in {"check", "touch"} \/ (spc = "exited" /\ ran # <<>>)) =>
          (Cardinality(Failed) = 3 \/ ran[Len(ran)] = 0)

\* three runs failed and the script has exited with status 1
C24_GaveUpAfterThreeFailures ==
    Len(ran) = 3 /\ Cardinality(Failed) = 3 /\ spc = "exited" /\ scriptExit = 1 /\ ~marker

\* the second run succeeded and the marker was made
C24_SecondAttemptSucceeded ==
    Len(ran) = 2 /\ ran[2] = 0 /\ marker /\ spc = "exited"

(***************************************************************************)
(* Claims about the end of waitForJob and about its pending polls.         *)
(***************************************************************************)
\* C25 (as stated): whatever getJob answers, waitForJob calls its callback
\* exactly once: never twice, and once when the call has come to its end;
\* nothing is pending after that; and the getJob calls are bounded
C25_CallbackExactlyOnce ==
    /\ Len(cbArgs) <= 1
    /\ Ended => Len(cbArgs) = 1 /\ polls = 0 /\ timers = 0
    /\ calls <= limit + 5

\* what holds of it: the callback is called at most once, and once unless
\* the last answer was a terminal job without chain_results; nothing is
\* pending once the call is over; at most 725 getJob calls are made
C25_CallbackAtMostOnce ==
    /\ Len(cbArgs) <= 1
    /\ jpc = "done" <=> Len(cbArgs) = 1
    /\ jpc = "threw" =>
          /\ job.present /\ job.execution \in {"succeeded", "failed"}
          /\ job.chain_results = <<>>
    /\ Ended => polls = 0 /\ timers = 0
    /\ calls <= limit + 5

\* C26: within one waitForJob call at most one getJob request or one poll
\* timer is pending; a timer is armed only in the step that takes the answer
\* of the pending getJob call, and a getJob call is issued only when none is
\* pending, so polls do not overlap and each answer is that of the last call
C26_OnePendingPollOrTimer ==
    [][/\ polls + timers <= 1
       /\ polls' + timers' <= 1
       /\ timers' > timers => (polls = 1 /\ polls' = 0)
       /\ calls' > calls => (polls = 0 /\ polls' = 1 /\ calls' = calls + 1)
       /\ attempts' > attempts => (polls = 1 /\ attempts' = calls)]_vars

\* a second poll was answered and the timer of the third is pending
C26_TimerPendingAfterSecondAnswer ==
    timers = 1 /\ polls = 0 /\ attempts = 2 /\ calls = 2

(***************************************************************************)
(* Claim about next and the response in every image endpoint.              *)
(***************************************************************************)
\* the handlers of the route of the request, the endpoint handler last
RouteChain ==
    LET i == CHOOSE k \in 1..Len(Routes) : Routes[k].name = req.route
    IN Routes[i].chain
Served == Dispatched /\ req.route # "none"
\* the endpoint handler has called next
EndpointDone == Served /\ Len(nexts) = Len(RouteChain)

\* C27: of the handlers of a route each one that has run has called next
\* once, the endpoint handler included (while it waits for pullImage or
\* pushImage it has not called next yet, afterwards it has called it once);
\* the response is sent or ended at most once; and when the endpoint handler
\* has passed an error to next, nothing was sent, written or ended
C27_NextOncePerHandler ==
    Served =>
        LET n == Len(RouteChain) IN
        /\ hpc # <<>> => Len(nexts) + Len(hpc) = n
        /\ hpc = <<>> =>
              /\ Len(nexts) \in 1..n
              /\ \A k \in 1..(Len(nexts) - 1) : nexts[k] = ""
              /\ Len(nexts) < n => nexts[Len(nexts)] # ""
        /\ res.sent + res.ended <= 1
        /\ (EndpointDone /\ nexts[n] \in {"", "false"} /\ req.route \notin {"ImageGet", "ImageLoad"})
              => res.sent + res.ended = 1
        /\ (EndpointDone /\ nexts[n] \notin {"", "false"}) =>
              res.sent = 0 /\ res.ended = 0 /\ res.writes = <<>>

\* the endpoint handler of a delete has passed the error of deleteImage on
C27_DeleteFailed ==
    /\ req.route = "ImageDelete" /\ EndpointDone
    /\ Gave("deleteImage", "err") /\ LastNext = "BackendError"

\* the endpoint handler of a list has sent the images and called next()
C27_ListSent ==
    /\ req.route = "ImageList" /\ EndpointDone
    /\ res.sent = 1 /\ LastNext = ""

====
